---- MODULE Spec2Model ----
(***************************************************************************)
(* Model of the circuit editing engine of gsim-gui                         *)
(* (src/src/app/circuit.rs, component.rs, math.rs).                        *)
(*                                                                         *)
(* Number representation.  Vec2i values are records [x, y] of integers.    *)
(* Vec2f values are records [x, y] whose fields count HALVES: the f32      *)
(* value v is represented by the integer 2*v.  Every f32 the model feeds   *)
(* in (pointer positions, pointer deltas) is a multiple of 0.5, and every  *)
(* f32 the code derives from them (sums, rounds, floors, (a + b) * 0.5)    *)
(* is again a multiple of 0.5, so the representation is exact as long as   *)
(* the value fits the 24 bit significand of f32; F32 models the rounding   *)
(* to nearest-even that happens when it does not.                          *)
(***************************************************************************)
EXTENDS Integers, Sequences, FiniteSets, TLC

VARIABLES components, wire_segments, selection, drag_state,
          primary_button_down, secondary_button_down, sim_state,
          panicked, call

vars == << components, wire_segments, selection, drag_state,
           primary_button_down, secondary_button_down, sim_state,
           panicked, call >>

(***************************************************************************)
(* Bounds of the model                                                     *)
(***************************************************************************)
\* integer grid coordinates range over 0 .. MaxCoord
MaxCoord == 2

\* wire segments of a circuit whose wire groups are computed
MaxGroupWires == 4

\* wire segments and components of a circuit whose widths are inferred
MaxWidthWires == 2

MaxWidthComps == 2

\* selection operations applied in a row to one selection
MaxOps == 4

\* operations applied to the edited circuit
MaxSteps == 6

(***************************************************************************)
(* Program constants                                                       *)
(***************************************************************************)
\* viewport.rs: BASE_ZOOM = 10.0; LOGICAL_PIXEL_SIZE = 1.0 / BASE_ZOOM
BASE_ZOOM == 10

\* circuit.rs: DEFAULT_ZOOM = 1.0, the zoom of Circuit::new()
DEFAULT_ZOOM == 1

\* circuit.rs 750: DEADZONE_RANGE = 0.8, in tenths
DEADZONE_RANGE == 8

(***************************************************************************)
(* math.rs                                                                 *)
(***************************************************************************)
Vec2(x, y) == [x |-> x, y |-> y]

Abs(n) == IF n < 0 THEN -n ELSE n

Min2(a, b) == IF a < b THEN a ELSE b

Max2(a, b) == IF a < b THEN b ELSE a

vec_add(a, b) == Vec2(a.x + b.x, a.y + b.y)

vec_sub(a, b) == Vec2(a.x - b.x, a.y - b.y)

vec_neg(a) == Vec2(-a.x, -a.y)

vec_abs(a) == Vec2(Abs(a.x), Abs(a.y))

dot(a, b) == (a.x * b.x) + (a.y * b.y)

cross(a, b) == (a.x * b.y) - (a.y * b.x)

\* the multiple of q nearest to v, ties to the even multiple
RoundEven(v, q) ==
    LET n == Abs(v)
        k == n \div q
        r == n % q
        m == IF 2 * r < q THEN k
             ELSE IF 2 * r > q THEN k + 1
             ELSE IF k % 2 = 0 THEN k ELSE k + 1
    IN  IF v < 0 THEN -(m * q) ELSE m * q

RECURSIVE F32Q(_, _)
F32Q(v, q) == IF Abs(v) < 16777216 * q THEN RoundEven(v, q)
                                       ELSE F32Q(v, 2 * q)

\* rounding of a real (counted in halves) to the nearest f32: 24 significant
\* bits, ties to even
F32(v) == F32Q(v, 1)

\* Vec2i::to_vec2f (i32 as f32)
to_vec2f(v) == Vec2(F32(2 * v.x), F32(2 * v.y))

\* f32::round: to the nearest integer, halves away from zero
f_round(h) == IF h >= 0 THEN 2 * ((h + 1) \div 2) ELSE -(2 * ((1 - h) \div 2))

\* f32::floor
f_floor(h) == 2 * (h \div 2)

\* Vec2f::round
vecf_round(v) == Vec2(f_round(v.x), f_round(v.y))

\* Vec2f::floor
vecf_floor(v) == Vec2(f_floor(v.x), f_floor(v.y))

\* Vec2f::to_vec2i (f32 as i32: truncation toward zero)
to_vec2i(v) ==
    LET t(h) == IF h >= 0 THEN h \div 2 ELSE -((-h) \div 2)
    IN  Vec2(t(v.x), t(v.y))

\* Vec2f addition and subtraction, each component rounded to f32
vecf_add(a, b) == Vec2(F32(a.x + b.x), F32(a.y + b.y))

vecf_sub(a, b) == Vec2(F32(a.x - b.x), F32(a.y - b.y))

(***************************************************************************)
(* WireSegment (circuit.rs)                                                *)
(***************************************************************************)
WireSegment(a, mids, b, sw) ==
    [endpoint_a |-> a, midpoints |-> mids, endpoint_b |-> b, sim_wires |-> sw]

\* update_midpoints with the direction test of the offset left out
update_midpoints_one_sided(seg) ==
    LET a    == seg.endpoint_a
        b    == seg.endpoint_b
        diff == vec_abs(vec_sub(b, a))
        mids ==
            IF (diff.x = 0) \/ (diff.y = 0) \/ (diff.x = diff.y)
            THEN << >>
            ELSE IF diff.x > diff.y
            THEN << Vec2(b.x + (diff.y - diff.x), b.y) >>
            ELSE << Vec2(b.x, b.y + (diff.x - diff.y)) >>
    IN  [seg EXCEPT !.midpoints = mids]

\* WireSegment::update_midpoints: the segment with its midpoints recomputed
update_midpoints(seg) ==
    LET a    == seg.endpoint_a
        b    == seg.endpoint_b
        diff == vec_abs(vec_sub(b, a))
        mids ==
            IF (diff.x = 0) \/ (diff.y = 0) \/ (diff.x = diff.y)
            THEN << >>
            ELSE IF diff.x > diff.y
            THEN LET offset == IF a.x > b.x THEN diff.x - diff.y
                                            ELSE diff.y - diff.x
                 IN  << Vec2(b.x + offset, b.y) >>
            ELSE LET offset == IF a.y > b.y THEN diff.y - diff.x
                                            ELSE diff.x - diff.y
                 IN  << Vec2(b.x, b.y + offset) >>
    IN  [seg EXCEPT !.midpoints = mids]

\* split_at that cuts the midpoints one position too late
split_at_late(seg, index, p) ==
    LET cut   == IF index < Len(seg.midpoints) THEN index + 1 ELSE index
        left  == SubSeq(seg.midpoints, 1, cut)
        right == SubSeq(seg.midpoints, cut + 1, Len(seg.midpoints))
    IN  [self |-> [seg EXCEPT !.midpoints = left, !.endpoint_b = p],
         new  |-> WireSegment(p, right, seg.endpoint_b, seg.sim_wires)]

\* WireSegment::split_at: [self |-> the shrunk original, new |-> the returned
\* segment].  The slice split_at(index) panics when index > len, so the
\* operator is only applied to index \in 0 .. Len(midpoints).
split_at(seg, index, p) ==
    LET left0  == SubSeq(seg.midpoints, 1, index)
        right0 == SubSeq(seg.midpoints, index + 1, Len(seg.midpoints))
        left   == IF Len(left0) > 0 /\ left0[Len(left0)] = p
                  THEN SubSeq(left0, 1, Len(left0) - 1) ELSE left0
        right  == IF Len(right0) > 0 /\ right0[1] = p
                  THEN Tail(right0) ELSE right0
    IN  [self |-> [seg EXCEPT !.midpoints = left, !.endpoint_b = p],
         new  |-> WireSegment(p, right, seg.endpoint_b, seg.sim_wires)]

(***************************************************************************)
(* Rectangle (math.rs); the fields count halves                            *)
(***************************************************************************)
Rectangle(top, bottom, left, right) ==
    [top |-> top, bottom |-> bottom, left |-> left, right |-> right]

\* Rectangle::contains, p a Vec2f
rect_contains(r, p) ==
    (p.x >= r.left) /\ (p.x <= r.right) /\ (p.y >= r.bottom) /\ (p.y <= r.top)

(***************************************************************************)
(* Component (component.rs)                                                *)
(***************************************************************************)
\* the kinds the application can create (app.rs 399-526); no constructor
\* exists for ComponentKind::Splitter
ComponentKinds ==
    { "Input", "ClockInput", "Output", "AndGate", "OrGate", "XorGate",
      "NandGate", "NorGate", "XnorGate" }

\* Rotation::Deg0 .. Deg270 are 0 .. 3
Rotations == 0 .. 3

\* Rotation::next that stays at Deg270
rot_next_no_wrap(r) == CASE r = 0 -> 1 [] r = 1 -> 2 [] r = 2 -> 3 [] r = 3 -> 3

\* Rotation::next
rot_next(r) == CASE r = 0 -> 1 [] r = 1 -> 2 [] r = 2 -> 3 [] r = 3 -> 0

\* Rotation::prev
rot_prev(r) == CASE r = 0 -> 3 [] r = 1 -> 0 [] r = 2 -> 1 [] r = 3 -> 2

\* Rotation::mirror that turns a quarter instead
rot_mirror_turning(r) == CASE r = 0 -> 1 [] r = 1 -> 2 [] r = 2 -> 3 [] r = 3 -> 0

\* Rotation::mirror
rot_mirror(r) == CASE r = 0 -> 0 [] r = 1 -> 3 [] r = 2 -> 2 [] r = 3 -> 1

\* Component::new: position 0, default rotation, not mirrored; the kind's
\* constructors give value 0, width 1 and an INVALID (0) simulator handle
Component_new(kind) ==
    [kind |-> kind, position |-> Vec2(0, 0), rotation |-> 0,
     mirrored |-> FALSE, value |-> 0, width |-> 1, sim |-> 0]

Anchor(x, y, k) == [position |-> Vec2(x, y), kind |-> k]

\* ComponentKind::anchors
kind_anchors(kind) ==
    CASE kind \in { "Input", "ClockInput" } -> << Anchor(0, 1, "Output") >>
      [] kind = "Output" -> << Anchor(0, -1, "Input") >>
      [] kind \in { "AndGate", "OrGate", "XorGate" } ->
            << Anchor(-1, -2, "Input"), Anchor(1, -2, "Input"),
               Anchor(0, 2, "Output") >>
      [] kind \in { "NandGate", "NorGate", "XnorGate" } ->
            << Anchor(-1, -2, "Input"), Anchor(1, -2, "Input"),
               Anchor(0, 3, "Output") >>

\* ComponentKind::bounding_box
kind_bounding_box(kind) ==
    IF kind \in { "Input", "ClockInput", "Output" }
    THEN Rectangle(2, -2, -2, 2)
    ELSE Rectangle(4, -4, -4, 4)

\* the rotation step of Component::anchors (component.rs 422-427)
rotate_vec(r, v) ==
    CASE r = 0 -> v
      [] r = 1 -> Vec2(-v.y, v.x)
      [] r = 2 -> vec_neg(v)
      [] r = 3 -> Vec2(v.y, -v.x)

\* Component::anchors: mirror, rotate, translate
anchors(c) ==
    LET base == kind_anchors(c.kind)
        one(a) ==
            LET m == IF c.mirrored THEN Vec2(-a.position.x, a.position.y)
                                   ELSE a.position
            IN  [a EXCEPT !.position = vec_add(rotate_vec(c.rotation, m),
                                               c.position)]
    IN  [k \in 1 .. Len(base) |-> one(base[k])]

\* Component::bounding_box
bounding_box(c) ==
    LET bb0 == kind_bounding_box(c.kind)
        bb1 == IF c.mirrored
               THEN [bb0 EXCEPT !.left = -bb0.right, !.right = -bb0.left]
               ELSE bb0
        bb2 == CASE c.rotation = 0 -> bb1
                 [] c.rotation = 1 ->
                      Rectangle(bb1.right, bb1.left, -bb1.top, -bb1.bottom)
                 [] c.rotation = 2 ->
                      Rectangle(-bb1.bottom, -bb1.top, -bb1.right, -bb1.left)
                 [] c.rotation = 3 ->
                      Rectangle(-bb1.left, -bb1.right, bb1.bottom, bb1.top)
        pos == to_vec2f(c.position)
    IN  Rectangle(F32(bb2.top + pos.y), F32(bb2.bottom + pos.y),
                  F32(bb2.left + pos.x), F32(bb2.right + pos.x))

\* the point sequence endpoint_a -> midpoints -> endpoint_b of a segment
points_of(seg) == << seg.endpoint_a >> \o seg.midpoints \o << seg.endpoint_b >>

(***************************************************************************)
(* Hit testing (circuit.rs)                                                *)
(***************************************************************************)
\* (v.len() <= LOGICAL_PIXEL_SIZE * 2.0) for a Vec2f v: with v counted in
\* halves, |v| / 2 <= 2 / BASE_ZOOM
within_snap(v) == BASE_ZOOM * BASE_ZOOM * dot(v, v) <= 16

\* The stroke quad of one leg a -> b in WireSegment::contains (circuit.rs
\* 78-99): the triangles t1 = (a1, a2, b2) and t2 = (a1, b2, b1) cover the
\* rectangle of half width LOGICAL_PIXEL_SIZE around the leg, edges
\* included (Triangle::contains accepts zero cross products).  a, b and p
\* are Vec2f.  For a leg of length zero the direction is NaN, every
\* comparison in Triangle::contains is false and the test succeeds.
leg_contains(a, b, p) ==
    LET d == vec_sub(b, a)
        q == vec_sub(p, a)
    IN  IF d = Vec2(0, 0) THEN TRUE
        ELSE /\ 0 <= dot(q, d)
             /\ dot(q, d) <= dot(d, d)
             /\ BASE_ZOOM * BASE_ZOOM * cross(q, d) * cross(q, d)
                    <= 4 * dot(d, d)

\* the least and the greatest element of a non-empty set of integers
MinOf(S) == CHOOSE v \in S : \A w \in S : v <= w

MaxOf(S) == CHOOSE v \in S : \A w \in S : v >= w

\* the bounding box test of WireSegment::contains (circuit.rs 49-69): the
\* fold over the points in i32, grown by LOGICAL_PIXEL_SIZE; p counts halves
wire_bb_contains(seg, p) ==
    /\ BASE_ZOOM * p.x >=
          BASE_ZOOM * F32(2 * MinOf({ points_of(seg)[k].x :
                                        k \in 1 .. Len(points_of(seg)) })) - 2
    /\ BASE_ZOOM * p.x <=
          BASE_ZOOM * F32(2 * MaxOf({ points_of(seg)[k].x :
                                        k \in 1 .. Len(points_of(seg)) })) + 2
    /\ BASE_ZOOM * p.y >=
          BASE_ZOOM * F32(2 * MinOf({ points_of(seg)[k].y :
                                        k \in 1 .. Len(points_of(seg)) })) - 2
    /\ BASE_ZOOM * p.y <=
          BASE_ZOOM * F32(2 * MaxOf({ points_of(seg)[k].y :
                                        k \in 1 .. Len(points_of(seg)) })) + 2

\* the loop over the legs in WireSegment::contains (circuit.rs 75-102), from
\* leg i on: the index of the first leg whose stroke contains p, -1 for None
RECURSIVE first_leg(_, _, _)
first_leg(pts, i, p) ==
    IF i + 2 > Len(pts) THEN -1
    ELSE IF leg_contains(to_vec2f(pts[i + 1]), to_vec2f(pts[i + 2]), p)
    THEN i
    ELSE first_leg(pts, i + 1, p)

\* WireSegment::contains: -1 for None, else the index of the first leg
\* whose stroke contains p
wire_contains(seg, p) ==
    IF ~wire_bb_contains(seg, p) THEN -1
    ELSE first_leg(points_of(seg), 0, p)

HitNone == [tag |-> "None"]

\* is logical_pos within two logical pixels of an anchor of c
anchor_hit(c, logical_pos) ==
    \E k \in 1 .. Len(kind_anchors(c.kind)) :
        within_snap(vecf_sub(logical_pos, to_vec2f(anchors(c)[k].position)))

\* the component loop of hit_test (circuit.rs 394-404), from index i on;
\* HitNone when it falls through
RECURSIVE hit_test_components(_, _, _)
hit_test_components(comps, i, logical_pos) ==
    IF i > Len(comps) THEN HitNone
    ELSE IF anchor_hit(comps[i], logical_pos)
    THEN [tag |-> "ComponentAnchor", index |-> i]
    ELSE IF rect_contains(bounding_box(comps[i]), logical_pos)
    THEN [tag |-> "Component", index |-> i]
    ELSE hit_test_components(comps, i + 1, logical_pos)

\* the wire loop of hit_test (circuit.rs 406-426), from index i on
RECURSIVE hit_test_wires(_, _, _, _)
hit_test_wires(wires, i, logical_pos, exclude_wire) ==
    IF i > Len(wires) THEN HitNone
    ELSE IF i = exclude_wire
    THEN hit_test_wires(wires, i + 1, logical_pos, exclude_wire)
    ELSE IF within_snap(vecf_sub(logical_pos, to_vec2f(wires[i].endpoint_a)))
    THEN [tag |-> "WirePointA", index |-> i]
    ELSE IF within_snap(vecf_sub(logical_pos, to_vec2f(wires[i].endpoint_b)))
    THEN [tag |-> "WirePointB", index |-> i]
    ELSE IF wire_contains(wires[i], logical_pos) >= 0
    THEN [tag |-> "WireSegment", index |-> i,
          split |-> wire_contains(wires[i], logical_pos)]
    ELSE hit_test_wires(wires, i + 1, logical_pos, exclude_wire)

\* Circuit::hit_test.  Indices are 1-based; exclude_wire = 0 stands for None.
hit_test(comps, wires, logical_pos, exclude_wire) ==
    IF hit_test_components(comps, 1, logical_pos) # HitNone
    THEN hit_test_components(comps, 1, logical_pos)
    ELSE hit_test_wires(wires, 1, logical_pos, exclude_wire)

(***************************************************************************)
(* Netlist construction (circuit.rs)                                       *)
(***************************************************************************)
\* segments_connect with the comparison of the two endpoint_b left out
segments_connect_no_bb(a, b) ==
    \/ a.endpoint_a = b.endpoint_a
    \/ a.endpoint_a = b.endpoint_b
    \/ a.endpoint_b = b.endpoint_a

\* find_wire_groups::segments_connect
segments_connect(a, b) ==
    \/ a.endpoint_a = b.endpoint_a
    \/ a.endpoint_a = b.endpoint_b
    \/ a.endpoint_b = b.endpoint_a
    \/ a.endpoint_b = b.endpoint_b

\* find_wire_groups::find_adjacent, the loop over segments resumed at index
\* i.  st = [group, group_map]; group_map[k] = 0 stands for None.
RECURSIVE find_adjacent(_, _, _, _, _)
find_adjacent(segments, segment, st, group_index, i) ==
    IF i > Len(segments) THEN st
    ELSE IF st.group_map[i] = 0 /\ segments_connect(segment, segments[i])
    THEN LET st1 == [group     |-> Append(st.group, i),
                     group_map |-> [st.group_map EXCEPT ![i] = group_index]]
             st2 == find_adjacent(segments, segments[i], st1, group_index, 1)
         IN  find_adjacent(segments, segment, st2, group_index, i + 1)
    ELSE find_adjacent(segments, segment, st, group_index, i + 1)

\* the outer loop of find_wire_groups (circuit.rs 1217-1234) resumed at i
RECURSIVE find_wire_groups_from(_, _, _, _)
find_wire_groups_from(segments, groups, group_map, i) ==
    IF i > Len(segments) THEN [groups |-> groups, group_map |-> group_map]
    ELSE IF group_map[i] = 0
    THEN LET group_index == Len(groups) + 1
             st == find_adjacent(segments, segments[i],
                                 [group     |-> << i >>,
                                  group_map |-> [group_map EXCEPT
                                                    ![i] = group_index]],
                                 group_index, 1)
         IN  find_wire_groups_from(segments, Append(groups, st.group),
                                   st.group_map, i + 1)
    ELSE find_wire_groups_from(segments, groups, group_map, i + 1)

\* Circuit::find_wire_groups: [groups, group_map], groups and segments
\* numbered from 1
find_wire_groups(segments) ==
    find_wire_groups_from(segments, << >>,
                          [k \in 1 .. Len(segments) |-> 0], 1)

\* Anchor::width: the bit width the anchor's component declares.  The
\* component.rs of this snapshot has no width field on Anchor; circuit.rs
\* reads anchor.width.
anchor_width(c) == IF c.kind = "ClockInput" THEN 1 ELSE c.width

\* components.iter().flat_map(Component::anchors), each anchor with its width
all_anchors(comps) ==
    LET RECURSIVE flat(_)
        flat(i) ==
            IF i > Len(comps) THEN << >>
            ELSE [k \in 1 .. Len(kind_anchors(comps[i].kind)) |->
                     [position |-> anchors(comps[i])[k].position,
                      width    |-> anchor_width(comps[i])]] \o flat(i + 1)
    IN  flat(1)

\* find_segment_width that keeps the first width it meets
find_segment_width_first(segment, comps) ==
    LET all == all_anchors(comps)
        at  == { k \in 1 .. Len(all) :
                    \/ all[k].position = segment.endpoint_a
                    \/ all[k].position = segment.endpoint_b }
    IN  IF at = { } THEN 0
        ELSE all[CHOOSE k \in at : \A j \in at : k <= j].width

\* find_wire_group_widths::find_segment_width: -1 for Err, 0 for Ok(None),
\* w for Ok(Some(w))
find_segment_width(segment, comps) ==
    LET all == all_anchors(comps)
        RECURSIVE scan(_, _)
        scan(k, segment_width) ==
            IF k > Len(all) THEN segment_width
            ELSE IF \/ all[k].position = segment.endpoint_a
                    \/ all[k].position = segment.endpoint_b
            THEN IF segment_width # 0
                 THEN IF all[k].width # segment_width THEN -1
                      ELSE scan(k + 1, segment_width)
                 ELSE scan(k + 1, all[k].width)
            ELSE scan(k + 1, segment_width)
    IN  scan(1, 0)

\* the closure of find_wire_group_widths for one group: -1 for Err, else
\* the width
find_group_width(group, segments, comps) ==
    LET RECURSIVE scan(_, _)
        scan(k, group_width) ==
            IF k > Len(group) THEN (IF group_width = 0 THEN 1 ELSE group_width)
            ELSE LET segment_width ==
                         find_segment_width(segments[group[k]], comps)
                 IN  IF segment_width = -1 THEN -1
                     ELSE IF segment_width = 0 THEN scan(k + 1, group_width)
                     ELSE IF group_width = 0 THEN scan(k + 1, segment_width)
                     ELSE IF segment_width # group_width THEN -1
                     ELSE scan(k + 1, group_width)
    IN  scan(1, 0)

\* find_wire_group_widths that gives a conflicting group the width 1
find_wire_group_widths_unchecked(groups, segments, comps) ==
    [ok     |-> TRUE,
     widths |-> [g \in 1 .. Len(groups) |->
                    IF find_group_width(groups[g], segments, comps) = -1
                    THEN 1
                    ELSE find_group_width(groups[g], segments, comps)]]

\* Circuit::find_wire_group_widths: [ok |-> FALSE] for Err(()), else
\* [ok |-> TRUE, widths |-> the width of every group]
find_wire_group_widths(groups, segments, comps) ==
    LET ws == [g \in 1 .. Len(groups) |->
                  find_group_width(groups[g], segments, comps)]
    IN  IF \E g \in 1 .. Len(groups) : ws[g] = -1
        THEN [ok |-> FALSE]
        ELSE [ok |-> TRUE, widths |-> ws]

(***************************************************************************)
(* Shared pieces of the state                                              *)
(***************************************************************************)
GridPoints == { Vec2(x, y) : x \in 0 .. MaxCoord, y \in 0 .. MaxCoord }

SelectionNone == [tag |-> "None"]

DragStateNone == [tag |-> "None"]

SimStateNone == [tag |-> "None"]

\* a wire segment as mouse_moved creates it (circuit.rs 776-786)
new_wire(a, b) == update_midpoints(WireSegment(a, << >>, b, << >>))

InsertAt(s, k, e) == SubSeq(s, 1, k - 1) \o << e >> \o SubSeq(s, k, Len(s))

(***************************************************************************)
(* SpecWire: the wire-segment geometry on its own.  Init draws one wire    *)
(* between two grid points; the actions move an endpoint (with the         *)
(* midpoint recomputation the drag arms of mouse_moved perform) and split  *)
(* the wire as primary_button_released / mouse_moved do.                   *)
(***************************************************************************)
InitWire ==
    /\ components = << >>
    /\ \E a \in GridPoints, b \in GridPoints :
          wire_segments = << new_wire(a, b) >>
    /\ selection = SelectionNone
    /\ drag_state = DragStateNone
    /\ primary_button_down = FALSE
    /\ secondary_button_down = FALSE
    /\ sim_state = SimStateNone
    /\ panicked = FALSE
    /\ call = [op |-> "update_midpoints", wire |-> 1, moved |-> "none"]

\* circuit.rs 911-915: endpoint_a replaced, midpoints recomputed
WireSetEndpointA(p) ==
    /\ Len(wire_segments) = 1
    /\ wire_segments[1].endpoint_a # p
    /\ wire_segments' = [wire_segments EXCEPT
           ![1] = update_midpoints([@ EXCEPT !.endpoint_a = p])]
    /\ call' = [op |-> "update_midpoints", wire |-> 1, moved |-> "endpoint_a"]
    /\ UNCHANGED << components, selection, drag_state, primary_button_down,
                    secondary_button_down, sim_state, panicked >>

\* circuit.rs 931-935: endpoint_b replaced, midpoints recomputed
WireSetEndpointB(p) ==
    /\ Len(wire_segments) = 1
    /\ wire_segments[1].endpoint_b # p
    /\ wire_segments' = [wire_segments EXCEPT
           ![1] = update_midpoints([@ EXCEPT !.endpoint_b = p])]
    /\ call' = [op |-> "update_midpoints", wire |-> 1, moved |-> "endpoint_b"]
    /\ UNCHANGED << components, selection, drag_state, primary_button_down,
                    secondary_button_down, sim_state, panicked >>

\* circuit.rs 632-635 / 844-847: split, then push the returned segment
WireSplitAt(index, p) ==
    /\ Len(wire_segments) = 1
    /\ index \in 0 .. Len(wire_segments[1].midpoints)
    /\ LET r == split_at(wire_segments[1], index, p)
       IN  wire_segments' = << r.self, r.new >>
    /\ call' = [op |-> "split_at", orig |-> wire_segments[1],
                index |-> index, p |-> p, wire |-> 1, new |-> 2]
    /\ UNCHANGED << components, selection, drag_state, primary_button_down,
                    secondary_button_down, sim_state, panicked >>

NextWire ==
    \/ \E p \in GridPoints : WireSetEndpointA(p)
    \/ \E p \in GridPoints : WireSetEndpointB(p)
    \/ \E index \in 0 .. 1, p \in GridPoints : WireSplitAt(index, p)

SpecWire == InitWire /\ [][NextWire]_vars

(***************************************************************************)
(* C8: after split_at(i, p) the shrunk original runs from the original     *)
(* endpoint_a to p, the returned segment from p to the original            *)
(* endpoint_b, and the two point sequences joined at p are the original    *)
(* point sequence, in order, with p either taking the place of the         *)
(* midpoint it coincides with or inserted on sub-segment i.                *)
(***************************************************************************)
C8_SplitKeepsPoints ==
    call.op = "split_at" =>
        LET orig   == call.orig
            shrunk == wire_segments[call.wire]
            new    == wire_segments[call.new]
            merged == << shrunk.endpoint_a >> \o shrunk.midpoints
                      \o << call.p >> \o new.midpoints \o << new.endpoint_b >>
        IN  /\ shrunk.endpoint_a = orig.endpoint_a
            /\ shrunk.endpoint_b = call.p
            /\ new.endpoint_a = call.p
            /\ new.endpoint_b = orig.endpoint_b
            /\ \/ merged = points_of(orig)
               \/ merged = InsertAt(points_of(orig), call.index + 2, call.p)

\* a bent wire was split on its second leg at a point that is new to it
C8_Witness ==
    /\ call.op = "split_at"
    /\ Len(call.orig.midpoints) = 1
    /\ call.index = 1
    /\ call.p \notin { points_of(call.orig)[k] : k \in 1 .. 3 }
    /\ Len(wire_segments[1].midpoints) = 1

(***************************************************************************)
(* C9: update_midpoints leaves no midpoint on a straight run (dx = 0,      *)
(* dy = 0 or dx = dy) and otherwise exactly one midpoint m with the leg    *)
(* m -> endpoint_b parallel to the axis of the larger delta, the leg       *)
(* endpoint_a -> m an exact diagonal, and m inside the box of a and b.     *)
(***************************************************************************)
C9_MidpointRule ==
    call.op = "update_midpoints" =>
        LET seg == wire_segments[call.wire]
            a   == seg.endpoint_a
            b   == seg.endpoint_b
            dx  == Abs(b.x - a.x)
            dy  == Abs(b.y - a.y)
        IN  IF (dx = 0) \/ (dy = 0) \/ (dx = dy)
            THEN seg.midpoints = << >>
            ELSE /\ Len(seg.midpoints) = 1
                 /\ LET m == seg.midpoints[1]
                    IN  /\ (dx > dy) => (m.y = b.y)
                        /\ (dy > dx) => (m.x = b.x)
                        /\ Abs(m.x - a.x) = Abs(m.y - a.y)
                        /\ Min2(a.x, b.x) <= m.x /\ m.x <= Max2(a.x, b.x)
                        /\ Min2(a.y, b.y) <= m.y /\ m.y <= Max2(a.y, b.y)

\* endpoint_a was dragged so that the wire needs a bend
C9_Witness ==
    /\ call.op = "update_midpoints"
    /\ call.moved = "endpoint_a"
    /\ Len(wire_segments[call.wire].midpoints) = 1
    /\ wire_segments[call.wire].endpoint_a.x > wire_segments[call.wire].endpoint_b.x

(***************************************************************************)
(* SpecHit: hit testing on its own.  Init draws two placed components;     *)
(* the action hit-tests one pointer position.                              *)
(***************************************************************************)
\* pointer positions: the half-unit lattice over the grid (Vec2f)
PointerPositions ==
    { Vec2(hx, hy) : hx \in 0 .. 2 * MaxCoord, hy \in 0 .. 2 * MaxCoord }

\* one kind of each bounding-box size
HitKinds == { "Input", "AndGate" }

PlacedComponents ==
    { [Component_new(kind) EXCEPT !.position = pos, !.rotation = rot,
                                  !.mirrored = mir] :
        kind \in HitKinds, pos \in GridPoints, rot \in Rotations,
        mir \in BOOLEAN }

InitHit ==
    /\ \E c1 \in PlacedComponents, c2 \in PlacedComponents :
          components = << c1, c2 >>
    /\ wire_segments = << >>
    /\ selection = SelectionNone
    /\ drag_state = DragStateNone
    /\ primary_button_down = FALSE
    /\ secondary_button_down = FALSE
    /\ sim_state = SimStateNone
    /\ panicked = FALSE
    /\ call = [op |-> "none"]

HitTest(pos) ==
    /\ call.op = "none"
    /\ call' = [op |-> "hit_test", pos |-> pos,
                result |-> hit_test(components, wire_segments, pos, 0)]
    /\ UNCHANGED << components, wire_segments, selection, drag_state,
                    primary_button_down, secondary_button_down, sim_state,
                    panicked >>

NextHit == \E pos \in PointerPositions : HitTest(pos)

SpecHit == InitHit /\ [][NextHit]_vars

\* is pos within the snap radius of an anchor of component c
near_anchor(c, pos) ==
    \E k \in 1 .. Len(kind_anchors(c.kind)) :
        within_snap(vecf_sub(pos, to_vec2f(anchors(c)[k].position)))

(***************************************************************************)
(* C4: a point within the snap radius of an anchor of one component and    *)
(* inside the bounding box of a different component hit-tests to           *)
(* ComponentAnchor of a component that has an anchor there, whatever the   *)
(* order of the components.                                                *)
(***************************************************************************)
C4_AnchorBeatsBox ==
    call.op = "hit_test" =>
        ( (\E i, j \in 1 .. Len(components) :
              /\ i # j
              /\ near_anchor(components[i], call.pos)
              /\ rect_contains(bounding_box(components[j]), call.pos))
          => /\ call.result.tag = "ComponentAnchor"
             /\ near_anchor(components[call.result.index], call.pos) )

(***************************************************************************)
(* SpecGroups and SpecWidths: netlist construction on its own.  Init draws *)
(* a circuit whose wire endpoints and component anchors lie on three       *)
(* points: the two ends of a bent wire and its midpoint, so that segments  *)
(* can share endpoints, form chains, or touch only at a midpoint.          *)
(***************************************************************************)
NetPoints == { Vec2(0, 0), Vec2(1, 1), Vec2(2, 1) }

NetWires == { new_wire(a, b) : a \in NetPoints, b \in NetPoints }

\* inputs of width 1 or 2 whose output anchor (position + (0, 1)) is a net
\* point
NetComponents ==
    { [Component_new("Input") EXCEPT !.position = Vec2(p.x, p.y - 1),
                                     !.width = w] :
        p \in NetPoints, w \in { 1, 2 } }

SeqsUpTo(S, n) == UNION { [1 .. k -> S] : k \in 0 .. n }

InitGroups ==
    /\ components = << >>
    /\ wire_segments \in SeqsUpTo(NetWires, MaxGroupWires)
    /\ selection = SelectionNone
    /\ drag_state = DragStateNone
    /\ primary_button_down = FALSE
    /\ secondary_button_down = FALSE
    /\ sim_state = SimStateNone
    /\ panicked = FALSE
    /\ call = [op |-> "none"]

\* circuit.rs 1328
FindWireGroups ==
    /\ call.op = "none"
    /\ call' = [op |-> "find_wire_groups",
                result |-> find_wire_groups(wire_segments)]
    /\ UNCHANGED << components, wire_segments, selection, drag_state,
                    primary_button_down, secondary_button_down, sim_state,
                    panicked >>

NextGroups == FindWireGroups

SpecGroups == InitGroups /\ [][NextGroups]_vars

InitWidths ==
    /\ components \in SeqsUpTo(NetComponents, MaxWidthComps)
    /\ wire_segments \in SeqsUpTo(NetWires, MaxWidthWires)
    /\ selection = SelectionNone
    /\ drag_state = DragStateNone
    /\ primary_button_down = FALSE
    /\ secondary_button_down = FALSE
    /\ sim_state = SimStateNone
    /\ panicked = FALSE
    /\ call = [op |-> "none"]

\* circuit.rs 1328-1331
FindWireGroupWidths ==
    /\ call.op = "none"
    /\ LET r == find_wire_groups(wire_segments)
       IN  call' = [op |-> "find_wire_group_widths", groups |-> r.groups,
                    result |-> find_wire_group_widths(r.groups, wire_segments,
                                                      components)]
    /\ UNCHANGED << components, wire_segments, selection, drag_state,
                    primary_button_down, secondary_button_down, sim_state,
                    panicked >>

NextWidths == FindWireGroupWidths

SpecWidths == InitWidths /\ [][NextWidths]_vars

Range(f) == { f[k] : k \in DOMAIN f }

\* the two endpoints of wire segment i
endpoints(i) == { wire_segments[i].endpoint_a, wire_segments[i].endpoint_b }

\* the segments linked to a segment of S by a chain of shared endpoints
RECURSIVE linked(_)
linked(S) ==
    LET T == S \cup { j \in 1 .. Len(wire_segments) :
                        \E i \in S : endpoints(i) \cap endpoints(j) # { } }
    IN  IF T = S THEN S ELSE linked(T)

(***************************************************************************)
(* C2: find_wire_groups returns a partition of the segment indices,        *)
(* group_map[i] is the group that contains i, and two segments are in the  *)
(* same group exactly when a chain of segments sharing endpoints (never    *)
(* midpoints) links them.                                                  *)
(***************************************************************************)
C2_GroupsAreConnectivity ==
    call.op = "find_wire_groups" =>
        LET groups    == call.result.groups
            group_map == call.result.group_map
            n         == Len(wire_segments)
        IN  /\ Len(group_map) = n
            /\ \A g \in 1 .. Len(groups) :
                  /\ groups[g] # << >>
                  /\ Range(groups[g]) \subseteq 1 .. n
                  /\ Cardinality(Range(groups[g])) = Len(groups[g])
            /\ \A i \in 1 .. n :
                  /\ group_map[i] \in 1 .. Len(groups)
                  /\ \A g \in 1 .. Len(groups) :
                        (i \in Range(groups[g])) <=> (g = group_map[i])
            /\ \A i, j \in 1 .. n :
                  (group_map[i] = group_map[j]) <=> (j \in linked({ i }))

\* two segments without a common endpoint are grouped through a third, and
\* a segment that touches another only at its midpoint is in another group
C2_Witness ==
    /\ call.op = "find_wire_groups"
    /\ \E i, j \in 1 .. Len(wire_segments) :
          /\ call.result.group_map[i] = call.result.group_map[j]
          /\ endpoints(i) \cap endpoints(j) = { }
    /\ \E i, j \in 1 .. Len(wire_segments) :
          /\ call.result.group_map[i] # call.result.group_map[j]
          /\ Range(wire_segments[i].midpoints) \cap endpoints(j) # { }

\* the widths declared by the anchors at endpoints of the segments of group
anchor_widths_of(group) ==
    { anchor_width(components[c]) :
        c \in { c \in 1 .. Len(components) :
                  \E k \in 1 .. Len(kind_anchors(components[c].kind)),
                     i \in Range(group) :
                      anchors(components[c])[k].position \in endpoints(i) } }

(***************************************************************************)
(* C3: find_wire_group_widths fails exactly when some group touches        *)
(* anchors of two different widths; when it succeeds, every group that     *)
(* touches anchors has their common width and every group that touches no  *)
(* anchor has width 1.                                                     *)
(***************************************************************************)
C3_GroupWidths ==
    call.op = "find_wire_group_widths" =>
        LET groups == call.groups
        IN  /\ call.result.ok <=>
                  (\A g \in 1 .. Len(groups) :
                      Cardinality(anchor_widths_of(groups[g])) <= 1)
            /\ call.result.ok =>
                  /\ Len(call.result.widths) = Len(groups)
                  /\ \A g \in 1 .. Len(groups) :
                        IF anchor_widths_of(groups[g]) = { }
                        THEN call.result.widths[g] = 1
                        ELSE anchor_widths_of(groups[g])
                                 = { call.result.widths[g] }

\* one group fails on anchors of widths 1 and 2 at the two ends of a segment
C3_WitnessConflict ==
    /\ call.op = "find_wire_group_widths"
    /\ ~call.result.ok
    /\ \E i \in 1 .. Len(wire_segments) :
          Cardinality({ anchor_width(components[c]) :
              c \in { c \in 1 .. Len(components) :
                        anchors(components[c])[1].position \in endpoints(i) } })
            = 2

(***************************************************************************)
(* Selection and the operations on it (circuit.rs)                         *)
(***************************************************************************)
SelComponent(i) == [tag |-> "Component", index |-> i]

SelWireSegment(i) == [tag |-> "WireSegment", index |-> i]

SelMulti(cs, ws, center) ==
    [tag |-> "Multi", components |-> cs, wire_segments |-> ws,
     center |-> center]

\* Selection::contains_component
contains_component(sel, i) ==
    CASE sel.tag = "Component" -> sel.index = i
      [] sel.tag = "Multi"     -> i \in sel.components
      [] OTHER                 -> FALSE

\* Selection::contains_wire_segment
contains_wire_segment(sel, i) ==
    CASE sel.tag = "WireSegment" -> sel.index = i
      [] sel.tag = "Multi"       -> i \in sel.wire_segments
      [] OTHER                   -> FALSE

\* Rectangle::center, (min + max) * 0.5
rect_center(r) ==
    Vec2(F32(r.left + r.right) \div 2, F32(r.bottom + r.top) \div 2)

\* Circuit::find_selection_bounding_box over the component set cs and the
\* wire-segment set ws (not both empty)
find_selection_bounding_box(comps, wires, cs, ws) ==
    LET pts == { comps[i].position : i \in cs }
               \cup UNION { { points_of(wires[i])[k] :
                                k \in 1 .. Len(points_of(wires[i])) } :
                            i \in ws }
        minx == CHOOSE v \in { p.x : p \in pts } : \A p \in pts : v <= p.x
        maxx == CHOOSE v \in { p.x : p \in pts } : \A p \in pts : v >= p.x
        miny == CHOOSE v \in { p.y : p \in pts } : \A p \in pts : v <= p.y
        maxy == CHOOSE v \in { p.y : p \in pts } : \A p \in pts : v >= p.y
    IN  Rectangle(F32(2 * maxy), F32(2 * miny), F32(2 * minx), F32(2 * maxx))

\* the selection the DrawingBoxSelection arm of primary_button_released
\* computes (circuit.rs 558-601); sel is the selection before the release
box_select(comps, wires, sel, drag_start, drag_delta) ==
    LET far == vecf_add(drag_start, drag_delta)
        selection_box ==
            Rectangle(Max2(drag_start.y, far.y), Min2(drag_start.y, far.y),
                      Min2(drag_start.x, far.x), Max2(drag_start.x, far.x))
        sc == { i \in 1 .. Len(comps) :
                  rect_contains(selection_box, to_vec2f(comps[i].position)) }
        sw == { i \in 1 .. Len(wires) :
                  \/ rect_contains(selection_box, to_vec2f(wires[i].endpoint_a))
                  \/ rect_contains(selection_box, to_vec2f(wires[i].endpoint_b)) }
    IN  IF Cardinality(sc) = 1 /\ sw = { }
        THEN SelComponent(CHOOSE i \in sc : TRUE)
        ELSE IF sc = { } /\ Cardinality(sw) = 1
        THEN SelWireSegment(CHOOSE i \in sw : TRUE)
        ELSE IF sc # { } \/ sw # { }
        THEN SelMulti(sc, sw,
                 rect_center(find_selection_bounding_box(comps, wires, sc, sw)))
        ELSE sel

\* endpoint_a += delta; endpoint_b += delta; every midpoint += delta
move_wire(seg, delta) ==
    [seg EXCEPT !.endpoint_a = vec_add(seg.endpoint_a, delta),
                !.endpoint_b = vec_add(seg.endpoint_b, delta),
                !.midpoints  = [k \in 1 .. Len(seg.midpoints) |->
                                   vec_add(seg.midpoints[k], delta)]]

\* move_selection whose Multi arm moves every wire segment of the circuit
move_selection_all_wires(comps, wires, sel, delta) ==
    CASE sel.tag = "None" ->
            [components |-> comps, wire_segments |-> wires, selection |-> sel]
      [] sel.tag = "Component" ->
            [components |->
                 [comps EXCEPT ![sel.index].position = vec_add(@, delta)],
             wire_segments |-> wires, selection |-> sel]
      [] sel.tag = "WireSegment" ->
            [components |-> comps,
             wire_segments |->
                 [wires EXCEPT ![sel.index] = move_wire(@, delta)],
             selection |-> sel]
      [] sel.tag = "Multi" ->
            [components |->
                 [i \in 1 .. Len(comps) |->
                     IF i \in sel.components
                     THEN [comps[i] EXCEPT !.position = vec_add(@, delta)]
                     ELSE comps[i]],
             wire_segments |->
                 [i \in 1 .. Len(wires) |-> move_wire(wires[i], delta)],
             selection |->
                 [sel EXCEPT !.center = vecf_add(@, to_vec2f(delta))]]

\* Circuit::move_selection: the components, wire segments and selection it
\* leaves.  Every selected index is valid (the expect() calls do not fire).
move_selection(comps, wires, sel, delta) ==
    CASE sel.tag = "None" ->
            [components |-> comps, wire_segments |-> wires, selection |-> sel]
      [] sel.tag = "Component" ->
            [components |->
                 [comps EXCEPT ![sel.index].position = vec_add(@, delta)],
             wire_segments |-> wires, selection |-> sel]
      [] sel.tag = "WireSegment" ->
            [components |-> comps,
             wire_segments |->
                 [wires EXCEPT ![sel.index] = move_wire(@, delta)],
             selection |-> sel]
      [] sel.tag = "Multi" ->
            [components |->
                 [i \in 1 .. Len(comps) |->
                     IF i \in sel.components
                     THEN [comps[i] EXCEPT !.position = vec_add(@, delta)]
                     ELSE comps[i]],
             wire_segments |->
                 [i \in 1 .. Len(wires) |->
                     IF i \in sel.wire_segments
                     THEN move_wire(wires[i], delta)
                     ELSE wires[i]],
             selection |->
                 [sel EXCEPT !.center = vecf_add(@, to_vec2f(delta))]]

\* the three closures counterclockwise_rotate_selection ("ccw"),
\* clockwise_rotate_selection ("cw") and mirror_selection ("mirror") hand to
\* transform_selection, selected by t
apply_mirror(t, b) == IF t = "mirror" THEN ~b ELSE b

apply_rot(t, r) ==
    CASE t = "ccw"    -> rot_next(r)
      [] t = "cw"     -> rot_prev(r)
      [] t = "mirror" -> rot_mirror(r)

apply_pt(t, v) ==
    CASE t = "ccw"    -> Vec2(-v.y, v.x)
      [] t = "cw"     -> Vec2(v.y, -v.x)
      [] t = "mirror" -> Vec2(-v.x, v.y)

\* (apply_pt(p.to_vec2f() - center) + center).floor().to_vec2i()
xform_pt(p, center, t) ==
    to_vec2i(vecf_floor(vecf_add(apply_pt(t, vecf_sub(to_vec2f(p), center)),
                                 center)))

\* both endpoints and every midpoint of a segment transformed about center
xform_wire(seg, center, t) ==
    [seg EXCEPT !.endpoint_a = xform_pt(seg.endpoint_a, center, t),
                !.endpoint_b = xform_pt(seg.endpoint_b, center, t),
                !.midpoints  = [k \in 1 .. Len(seg.midpoints) |->
                                   xform_pt(seg.midpoints[k], center, t)]]

\* Circuit::transform_selection: the components and wire segments it leaves
transform_selection(comps, wires, sel, t) ==
    CASE sel.tag = "None" ->
            [components |-> comps, wire_segments |-> wires]
      [] sel.tag = "Component" ->
            [components |->
                 [comps EXCEPT ![sel.index] =
                     [@ EXCEPT !.mirrored = apply_mirror(t, @),
                               !.rotation = apply_rot(t, @)]],
             wire_segments |-> wires]
      [] sel.tag = "WireSegment" ->
            LET seg    == wires[sel.index]
                sum    == to_vec2f(vec_add(seg.endpoint_a, seg.endpoint_b))
                center == Vec2(sum.x \div 2, sum.y \div 2)
            IN  [components |-> comps,
                 wire_segments |->
                     [wires EXCEPT ![sel.index] = xform_wire(seg, center, t)]]
      [] sel.tag = "Multi" ->
            [components |->
                 [i \in 1 .. Len(comps) |->
                     IF i \in sel.components
                     THEN [comps[i] EXCEPT
                              !.position = xform_pt(@, sel.center, t),
                              !.mirrored = apply_mirror(t, @),
                              !.rotation = apply_rot(t, @)]
                     ELSE comps[i]],
             wire_segments |->
                 [i \in 1 .. Len(wires) |->
                     IF i \in sel.wire_segments
                     THEN xform_wire(wires[i], sel.center, t)
                     ELSE wires[i]]]

counterclockwise_rotate_selection(comps, wires, sel) ==
    transform_selection(comps, wires, sel, "ccw")

clockwise_rotate_selection(comps, wires, sel) ==
    transform_selection(comps, wires, sel, "cw")

mirror_selection(comps, wires, sel) ==
    transform_selection(comps, wires, sel, "mirror")

(***************************************************************************)
(* SpecXform: the selection operations.  Init is a drawn circuit (two      *)
(* components, two wire segments) with a selection made by a click or by   *)
(* a box selection; the actions are the rotate, mirror and move            *)
(* operations.  call.hist records the operations applied and call.trail    *)
(* the circuit before each of them.                                        *)
(***************************************************************************)
XformComponents ==
    << [Component_new("AndGate") EXCEPT !.position = Vec2(0, 0)],
       [Component_new("Input") EXCEPT !.position = Vec2(1, 2),
                                      !.rotation = 1, !.mirrored = TRUE] >>

XformWires ==
    { << new_wire(a.p, a.q), new_wire(b.p, b.q) >> :
        a \in { [p |-> Vec2(0, 0), q |-> Vec2(1, 0)],
                [p |-> Vec2(0, 0), q |-> Vec2(2, 2)] },
        b \in { [p |-> Vec2(1, 2), q |-> Vec2(3, 1)],
                [p |-> Vec2(3, 0), q |-> Vec2(2, 3)] } }

\* corners of selection boxes, between the grid points
XformBoxCorners == { Vec2(x, y) : x \in { -1, 1, 5, 7 }, y \in { -1, 1, 5 } }

XformDeltas == { Vec2(1, 0), Vec2(-1, 0), Vec2(-2, 3), Vec2(2, -3) }

snapshot == [components |-> components, wire_segments |-> wire_segments,
             selection |-> selection]

InitXform ==
    /\ components = XformComponents
    /\ wire_segments \in XformWires
    /\ \/ selection = SelectionNone
       \/ \E i \in 1 .. 2 : selection = SelComponent(i)
       \/ \E i \in 1 .. 2 : selection = SelWireSegment(i)
       \/ \E s \in XformBoxCorners, e \in XformBoxCorners :
             selection = box_select(components, wire_segments, SelectionNone,
                                    s, vecf_sub(e, s))
    /\ drag_state = DragStateNone
    /\ primary_button_down = FALSE
    /\ secondary_button_down = FALSE
    /\ sim_state = SimStateNone
    /\ panicked = FALSE
    /\ call = [op |-> "xform", hist |-> << >>, trail |-> << >>]

\* the bookkeeping of one selection operation
Applied(name, delta) ==
    /\ call.op = "xform"
    /\ Len(call.hist) < MaxOps
    /\ call' = [call EXCEPT
           !.hist  = Append(@, [op |-> name, delta |-> delta]),
           !.trail = Append(@, snapshot)]
    /\ UNCHANGED << drag_state, primary_button_down, secondary_button_down,
                    sim_state, panicked >>

CounterclockwiseRotateSelection ==
    /\ Applied("ccw", Vec2(0, 0))
    /\ LET r == counterclockwise_rotate_selection(components, wire_segments,
                                                  selection)
       IN  /\ components' = r.components
           /\ wire_segments' = r.wire_segments
    /\ UNCHANGED selection

ClockwiseRotateSelection ==
    /\ Applied("cw", Vec2(0, 0))
    /\ LET r == clockwise_rotate_selection(components, wire_segments,
                                           selection)
       IN  /\ components' = r.components
           /\ wire_segments' = r.wire_segments
    /\ UNCHANGED selection

MirrorSelection ==
    /\ Applied("mirror", Vec2(0, 0))
    /\ LET r == mirror_selection(components, wire_segments, selection)
       IN  /\ components' = r.components
           /\ wire_segments' = r.wire_segments
    /\ UNCHANGED selection

MoveSelection(delta) ==
    /\ Applied("move", delta)
    /\ LET r == move_selection(components, wire_segments, selection, delta)
       IN  /\ components' = r.components
           /\ wire_segments' = r.wire_segments
           /\ selection' = r.selection

NextXform ==
    \/ CounterclockwiseRotateSelection
    \/ ClockwiseRotateSelection
    \/ MirrorSelection
    \/ \E delta \in XformDeltas : MoveSelection(delta)

SpecXform == InitXform /\ [][NextXform]_vars

\* the last n operations were all name
LastOps(n, name) ==
    /\ call.op = "xform"
    /\ Len(call.hist) >= n
    /\ \A k \in Len(call.hist) - n + 1 .. Len(call.hist) :
          call.hist[k].op = name

\* the circuit before the last n operations
Before(n) == call.trail[Len(call.hist) - n + 1]

\* every selected component and wire segment is as it was n operations ago
SelectedRestored(n) ==
    /\ \A i \in 1 .. Len(components) :
          contains_component(selection, i) =>
              components[i] = Before(n).components[i]
    /\ \A i \in 1 .. Len(wire_segments) :
          contains_wire_segment(selection, i) =>
              wire_segments[i] = Before(n).wire_segments[i]

(***************************************************************************)
(* C5: four counterclockwise rotations in a row, and four clockwise ones,  *)
(* leave every selected component (position, rotation, mirror flag) and    *)
(* every selected wire segment (endpoints, midpoints) as they were.        *)
(***************************************************************************)
C5_FourRotationsRestore ==
    (LastOps(4, "ccw") \/ LastOps(4, "cw")) => SelectedRestored(4)

(***************************************************************************)
(* C6: two mirror_selection calls in a row leave every selected component  *)
(* and every selected wire segment as they were.                           *)
(***************************************************************************)
C6_MirrorTwiceRestores ==
    LastOps(2, "mirror") => SelectedRestored(2)

\* a Multi selection holding a mirrored, rotated component and a bent wire
\* was mirrored twice
C6_Witness ==
    /\ LastOps(2, "mirror")
    /\ selection.tag = "Multi"
    /\ \E i \in selection.components :
          components[i].rotation = 1 /\ components[i].mirrored
    /\ \E i \in selection.wire_segments : Len(wire_segments[i].midpoints) = 1
    /\ call.trail[Len(call.hist)].components # components

ScreenPositions ==
    { Vec2(0, 0), Vec2(0, 10), Vec2(10, 20), Vec2(30, 10), Vec2(15, 15) }

\* pointer movements, logical, in halves
PointerDeltas == { Vec2(4, -2), Vec2(2, -2), Vec2(1, 0), Vec2(-4, -4) }

DragModes == { "BoxSelection", "DrawWire" }

\* the kinds added to the circuit
AddKinds == { "Input" }

\* app.rs 641-659: the arrow keys
KeyDeltas == { Vec2(1, 0), Vec2(0, -1) }

\* pos / (self.zoom * BASE_ZOOM) + self.offset, with the zoom and the zero
\* offset of Circuit::new(); the result counts halves
to_logical(pos) ==
    Vec2(F32((2 * pos.x) \div (DEFAULT_ZOOM * BASE_ZOOM)),
         F32((2 * pos.y) \div (DEFAULT_ZOOM * BASE_ZOOM)))

Init ==
    /\ components = << >>
    /\ wire_segments = << >>
    /\ selection = SelectionNone
    /\ drag_state = DragStateNone
    /\ primary_button_down = FALSE
    /\ secondary_button_down = FALSE
    /\ sim_state = SimStateNone
    /\ panicked = FALSE
    /\ call = [op |-> "new", was |-> "None", steps |-> 0, ret |-> "unit"]

\* the bookkeeping of one operation and of what it returned: "true" or
\* "false" for the operations that return requires_redraw, "unit" for the
\* others and for a call that panics; MaxSteps bounds the run
Returned(name, ret) ==
    /\ call.steps < MaxSteps
    /\ call' = [op |-> name, was |-> drag_state.tag,
                steps |-> call.steps + 1, ret |-> ret]

Called(name) == Returned(name, "unit")

\* the same for the call of mouse_moved that ends the dead zone, with the
\* drag mode it was given
ReturnedIn(name, ret, drag_mode) ==
    /\ call.steps < MaxSteps
    /\ call' = [op |-> name, was |-> drag_state.tag,
                steps |-> call.steps + 1, ret |-> ret,
                drag_mode |-> drag_mode]

\* requires_redraw as recorded in call
redraw(b) == IF b THEN "true" ELSE "false"

\* the operation panics
Panic(name) ==
    /\ panicked' = TRUE
    /\ Called(name)
    /\ UNCHANGED << components, wire_segments, selection, drag_state,
                    primary_button_down, secondary_button_down, sim_state >>

\* Circuit::add_component
AddComponent(kind) ==
    /\ ~panicked
    /\ selection' = SelComponent(Len(components) + 1)
    /\ drag_state' = DragStateNone
    /\ components' = Append(components, Component_new(kind))
    /\ Called("add_component")
    /\ UNCHANGED << wire_segments, primary_button_down,
                    secondary_button_down, sim_state, panicked >>
\* the press that selects the element hit even when the selection holds it
pressed_selection_replacing(sel, hit, drag_mode) ==
    CASE hit.tag = "None" -> SelectionNone
      [] \/ hit.tag = "Component"
         \/ (hit.tag = "ComponentAnchor" /\ drag_mode = "BoxSelection") ->
            SelComponent(hit.index)
      [] /\ hit.tag \in { "WireSegment", "WirePointA", "WirePointB" }
         /\ drag_mode = "BoxSelection" ->
            SelWireSegment(hit.index)
      [] OTHER -> sel

\* the selection primary_button_pressed leaves (circuit.rs 490-522)
pressed_selection(sel, hit, drag_mode) ==
    CASE hit.tag = "None" -> SelectionNone
      [] \/ hit.tag = "Component"
         \/ (hit.tag = "ComponentAnchor" /\ drag_mode = "BoxSelection") ->
            IF contains_component(sel, hit.index) THEN sel
            ELSE SelComponent(hit.index)
      [] /\ hit.tag \in { "WireSegment", "WirePointA", "WirePointB" }
         /\ drag_mode = "BoxSelection" ->
            IF contains_wire_segment(sel, hit.index) THEN sel
            ELSE SelWireSegment(hit.index)
      [] OTHER -> sel

\* what primary_button_pressed returns (circuit.rs 490-522): true from the
\* arms that assign the selection
pressed_redraw(sel, hit, drag_mode) ==
    CASE hit.tag = "None" -> sel.tag # "None"
      [] \/ hit.tag = "Component"
         \/ (hit.tag = "ComponentAnchor" /\ drag_mode = "BoxSelection") ->
            ~contains_component(sel, hit.index)
      [] /\ hit.tag \in { "WireSegment", "WirePointA", "WirePointB" }
         /\ drag_mode = "BoxSelection" ->
            ~contains_wire_segment(sel, hit.index)
      [] OTHER -> FALSE

\* primary_button_pressed that leaves primary_button_down as it was
primary_button_pressed_not_down(sel, hit, logical_pos, drag_mode, down) ==
    [selection  |-> pressed_selection(sel, hit, drag_mode),
     drag_state |-> [tag |-> "Deadzone", drag_start |-> logical_pos,
                     drag_delta |-> Vec2(0, 0)],
     primary_button_down |-> down]

\* Circuit::primary_button_pressed with no simulation active and the
\* assertion passed (circuit.rs 482-527): the fields it leaves
primary_button_pressed(sel, hit, logical_pos, drag_mode, down) ==
    [selection  |-> pressed_selection(sel, hit, drag_mode),
     drag_state |-> [tag |-> "Deadzone", drag_start |-> logical_pos,
                     drag_delta |-> Vec2(0, 0)],
     primary_button_down |-> TRUE]

\* Circuit::primary_button_pressed while no simulation is active
PrimaryButtonPressed(pos, drag_mode) ==
    /\ ~panicked
    /\ sim_state.tag # "Active"
    /\ IF drag_state.tag # "None"
       THEN Panic("primary_button_pressed")
       ELSE \E logical_pos \in { to_logical(pos) } :
            \E hit \in { hit_test(components, wire_segments, logical_pos, 0) } :
            \E r \in { primary_button_pressed(selection, hit, logical_pos,
                                              drag_mode, primary_button_down) } :
                /\ drag_state' = r.drag_state
                /\ selection' = r.selection
                /\ primary_button_down' = r.primary_button_down
                /\ Returned("primary_button_pressed",
                            redraw(pressed_redraw(selection, hit, drag_mode)))
                /\ UNCHANGED << components, wire_segments,
                                secondary_button_down, sim_state, panicked >>

\* clicked_selection that selects the element after the one hit
clicked_selection_next(hit) ==
    CASE hit.tag = "None" -> SelectionNone
      [] hit.tag \in { "Component", "ComponentAnchor" } ->
            SelComponent(hit.index + 1)
      [] OTHER -> SelWireSegment(hit.index + 1)

\* the selection a release without a drag leaves (circuit.rs 537-555)
clicked_selection(hit) ==
    CASE hit.tag = "None" -> SelectionNone
      [] hit.tag \in { "Component", "ComponentAnchor" } ->
            SelComponent(hit.index)
      [] OTHER -> SelWireSegment(hit.index)

\* the endpoint a wire drag moved (circuit.rs 619-626)
dragged_endpoint(wires, ds) ==
    IF ds.tag = "DraggingWirePointA"
    THEN wires[ds.wire_segment].endpoint_a
    ELSE wires[ds.wire_segment].endpoint_b

\* the hit test at the endpoint a wire drag moved, the dragged segment
\* excluded (circuit.rs 628); HitNone when no wire point was dragged
dropped_hit(comps, wires, ds) ==
    IF ds.tag \in { "DraggingWirePointA", "DraggingWirePointB" }
    THEN hit_test(comps, wires, to_vec2f(dragged_endpoint(wires, ds)),
                  ds.wire_segment)
    ELSE HitNone

\* the wire segments after the split of circuit.rs 628-637: the endpoint
\* the drag moved lies on the body of another segment; hit is the hit test
\* at that endpoint
split_under(wires, hit, endpoint) ==
    IF hit.tag = "WireSegment"
    THEN LET r == split_at(wires[hit.index], hit.split, endpoint)
         IN  Append([wires EXCEPT ![hit.index] = r.self], r.new)
    ELSE wires

\* the index of circuit.rs 621 / 624 is out of bounds
release_panics(wires, ds) ==
    /\ ds.tag \in { "DraggingWirePointA", "DraggingWirePointB" }
    /\ ds.wire_segment > Len(wires)

\* the selection primary_button_released leaves when the button was down;
\* hit is the hit test at the pointer
released_selection(comps, wires, sel, ds, hit) ==
    CASE ds.tag = "None" -> clicked_selection(hit)
      [] ds.tag = "DrawingBoxSelection" ->
            box_select(comps, wires, sel, ds.drag_start, ds.drag_delta)
      [] OTHER -> sel

\* the wire segments primary_button_released leaves when the button was
\* down; dropped is the hit test at the dragged endpoint
released_wires(wires, ds, dropped) ==
    IF ds.tag \in { "DraggingWirePointA", "DraggingWirePointB" }
    THEN split_under(wires, dropped, dragged_endpoint(wires, ds))
    ELSE wires

\* primary_button_released that returns from a Deadzone without resetting
\* the drag state
primary_button_released_keeps_deadzone(comps, wires, sel, ds, down, hit, dropped) ==
    IF down
    THEN [selection     |-> released_selection(comps, wires, sel, ds, hit),
          wire_segments |-> released_wires(wires, ds, dropped),
          drag_state    |-> IF ds.tag = "Deadzone" THEN ds ELSE DragStateNone,
          primary_button_down |-> FALSE]
    ELSE [selection |-> sel, wire_segments |-> wires, drag_state |-> ds,
          primary_button_down |-> FALSE]

\* Circuit::primary_button_released, when it returns: the fields it leaves.
\* hit is the hit test at the pointer, dropped the one at the dragged endpoint
primary_button_released(comps, wires, sel, ds, down, hit, dropped) ==
    IF down
    THEN [selection     |-> released_selection(comps, wires, sel, ds, hit),
          wire_segments |-> released_wires(wires, ds, dropped),
          drag_state    |-> DragStateNone,
          primary_button_down |-> FALSE]
    ELSE [selection |-> sel, wire_segments |-> wires, drag_state |-> ds,
          primary_button_down |-> FALSE]

\* what primary_button_released returns: requires_redraw is set by a click
\* that assigns the selection (circuit.rs 537-555) and by the end of a box
\* selection (603), and by nothing else
released_redraw(sel, ds, down, hit) ==
    /\ down
    /\ \/ ds.tag = "None" /\ (hit.tag # "None" \/ sel.tag # "None")
       \/ ds.tag = "DrawingBoxSelection"

\* Circuit::primary_button_released
PrimaryButtonReleased(pos) ==
    /\ ~panicked
    /\ IF primary_button_down /\ release_panics(wire_segments, drag_state)
       THEN Panic("primary_button_released")
       ELSE \E hit \in { hit_test(components, wire_segments,
                                   to_logical(pos), 0) } :
            \E dropped \in { dropped_hit(components, wire_segments,
                                         drag_state) } :
            \E r \in { primary_button_released(components, wire_segments,
                           selection, drag_state, primary_button_down, hit,
                           dropped) } :
                /\ selection' = r.selection
                /\ wire_segments' = r.wire_segments
                /\ drag_state' = r.drag_state
                /\ primary_button_down' = r.primary_button_down
                /\ Returned("primary_button_released",
                            redraw(released_redraw(selection, drag_state,
                                       primary_button_down, hit)))
                /\ UNCHANGED << components, secondary_button_down, sim_state,
                                panicked >>

\* Circuit::secondary_button_pressed
SecondaryButtonPressed ==
    /\ ~panicked
    /\ secondary_button_down' = TRUE
    /\ Returned("secondary_button_pressed", redraw(FALSE))
    /\ UNCHANGED << components, wire_segments, selection, drag_state,
                    primary_button_down, sim_state, panicked >>

\* the selection secondary_button_released leaves (circuit.rs 659-684)
secondary_selection(sel, hit) ==
    CASE hit.tag = "None" -> SelectionNone
      [] hit.tag \in { "Component", "ComponentAnchor" } ->
            IF contains_component(sel, hit.index) THEN sel
            ELSE SelComponent(hit.index)
      [] OTHER ->
            IF contains_wire_segment(sel, hit.index) THEN sel
            ELSE SelWireSegment(hit.index)

\* what secondary_button_released returns when the button was down: true
\* from the arms that assign the selection
secondary_redraw(sel, hit) ==
    CASE hit.tag = "None" -> sel.tag # "None"
      [] hit.tag \in { "Component", "ComponentAnchor" } ->
            ~contains_component(sel, hit.index)
      [] OTHER -> ~contains_wire_segment(sel, hit.index)

\* Circuit::secondary_button_released
SecondaryButtonReleased(pos) ==
    /\ ~panicked
    /\ IF secondary_button_down
       THEN \E hit \in { hit_test(components, wire_segments,
                                   to_logical(pos), 0) } :
               /\ selection' = secondary_selection(selection, hit)
               /\ drag_state' = DragStateNone
               /\ Returned("secondary_button_released",
                           redraw(secondary_redraw(selection, hit)))
       ELSE /\ UNCHANGED << selection, drag_state >>
            /\ Returned("secondary_button_released", redraw(FALSE))
    /\ secondary_button_down' = FALSE
    /\ UNCHANGED << components, wire_segments, primary_button_down,
                    sim_state, panicked >>

\* mouse_moved without a dead zone: any movement ends it
leaves_deadzone_at_once(drag_delta) ==
    25 * dot(drag_delta, drag_delta) >= 0

\* drag_delta.len() >= DEADZONE_RANGE, drag_delta in halves
leaves_deadzone(drag_delta) ==
    25 * dot(drag_delta, drag_delta) >= DEADZONE_RANGE * DEADZONE_RANGE

\* the segment drawn from the press point cut off to whole grid units
draw_segment_truncating(drag_start, drag_delta) ==
    new_wire(Vec2(drag_start.x \div 2, drag_start.y \div 2),
             to_vec2i(vecf_round(vecf_add(drag_start, drag_delta))))

\* the wire segment that mouse_moved draws when the dead zone ends in
\* wire-draw mode (circuit.rs 776-786, 842-855, 866-876): from the rounded
\* press point to the rounded pointer position
draw_segment(drag_start, drag_delta) ==
    new_wire(to_vec2i(vecf_round(drag_start)),
             to_vec2i(vecf_round(vecf_add(drag_start, drag_delta))))

\* the arm of mouse_moved that ends the deadzone (circuit.rs 764-890), hit
\* the hit test at drag_start: [panic, wire_segments, drag_state]
leave_deadzone(wires, sel, hit, drag_start, drag_delta, drag_mode) ==
    LET endpoint_a == to_vec2i(vecf_round(drag_start))
        endpoint_b == to_vec2i(vecf_round(vecf_add(drag_start, drag_delta)))
        segment    == draw_segment(drag_start, drag_delta)
        ok(ws, ds) == [panic |-> FALSE, wire_segments |-> ws, drag_state |-> ds]
        failed     == [panic |-> TRUE, wire_segments |-> wires,
                       drag_state |-> DragStateNone]
        point(tag, ws) == [tag |-> tag, wire_segment |-> ws,
                           drag_start |-> drag_start,
                           drag_delta |-> drag_delta]
        dragging   == [tag |-> "Dragging", fract_drag_delta |-> drag_delta]
    IN  CASE hit.tag = "None" /\ drag_mode = "BoxSelection" ->
                ok(wires, [tag |-> "DrawingBoxSelection",
                           drag_start |-> drag_start,
                           drag_delta |-> drag_delta])
          [] /\ hit.tag \in { "None", "ComponentAnchor", "WirePointA",
                              "WirePointB" }
             /\ drag_mode = "DrawWire" ->
                ok(Append(wires, segment),
                   point("DraggingWirePointB", Len(wires) + 1))
          [] \/ hit.tag = "Component"
             \/ (hit.tag = "ComponentAnchor" /\ drag_mode = "BoxSelection") ->
                IF contains_component(sel, hit.index)
                THEN ok(wires, dragging) ELSE failed
          [] hit.tag = "WireSegment" /\ drag_mode = "BoxSelection" ->
                IF contains_wire_segment(sel, hit.index)
                THEN ok(wires, dragging) ELSE failed
          [] hit.tag = "WirePointA" /\ drag_mode = "BoxSelection" ->
                ok(wires, point("DraggingWirePointA", hit.index))
          [] hit.tag = "WirePointB" /\ drag_mode = "BoxSelection" ->
                ok(wires, point("DraggingWirePointB", hit.index))
          [] hit.tag = "WireSegment" /\ drag_mode = "DrawWire" ->
                LET r == split_at(wires[hit.index], hit.split, endpoint_a)
                    split == Append([wires EXCEPT ![hit.index] = r.self],
                                    r.new)
                IN  ok(Append(split, segment),
                       point("DraggingWirePointB", Len(split) + 1))

\* the DraggingWirePointA / DraggingWirePointB arms (circuit.rs 899-938):
\* the dragged endpoint follows the pointer, the midpoints are recomputed
\* when it changed
drag_wire_point(seg, tag, drag_start, drag_delta) ==
    LET new == to_vec2i(vecf_round(vecf_add(drag_start, drag_delta)))
    IN  IF tag = "DraggingWirePointA"
        THEN IF seg.endpoint_a # new
             THEN update_midpoints([seg EXCEPT !.endpoint_a = new])
             ELSE seg
        ELSE IF seg.endpoint_b # new
             THEN update_midpoints([seg EXCEPT !.endpoint_b = new])
             ELSE seg

\* Circuit::mouse_moved
MouseMoved(delta, drag_mode) ==
    /\ ~panicked
    /\ IF ~(primary_button_down /\ ~secondary_button_down)
          \/ drag_state.tag = "None"
       THEN /\ Returned("mouse_moved", redraw(FALSE))
            /\ UNCHANGED << components, wire_segments, selection, drag_state,
                            primary_button_down, secondary_button_down,
                            sim_state, panicked >>
       ELSE IF drag_state.tag = "Deadzone"
       THEN \E drag_delta \in { vecf_add(drag_state.drag_delta, delta) } :
                IF ~leaves_deadzone(drag_delta)
                THEN /\ drag_state' = [drag_state EXCEPT
                                          !.drag_delta = drag_delta]
                     /\ Returned("mouse_moved", redraw(FALSE))
                     /\ UNCHANGED << components, wire_segments, selection,
                                     primary_button_down,
                                     secondary_button_down, sim_state,
                                     panicked >>
                ELSE \E hit \in { hit_test(components, wire_segments,
                                            drag_state.drag_start, 0) } :
                     \E r \in { leave_deadzone(wire_segments, selection, hit,
                                     drag_state.drag_start, drag_delta,
                                     drag_mode) } :
                        IF r.panic THEN Panic("mouse_moved")
                        ELSE /\ wire_segments' = r.wire_segments
                             /\ drag_state' = r.drag_state
                             /\ ReturnedIn("mouse_moved", redraw(TRUE),
                                           drag_mode)
                             /\ UNCHANGED << components, selection,
                                             primary_button_down,
                                             secondary_button_down, sim_state,
                                             panicked >>
       ELSE IF drag_state.tag = "DrawingBoxSelection"
       THEN /\ drag_state' = [drag_state EXCEPT
                                 !.drag_delta = vecf_add(@, delta)]
            /\ Returned("mouse_moved", redraw(TRUE))
            /\ UNCHANGED << components, wire_segments, selection,
                            primary_button_down, secondary_button_down,
                            sim_state, panicked >>
       ELSE IF drag_state.tag \in { "DraggingWirePointA",
                                    "DraggingWirePointB" }
       THEN IF drag_state.wire_segment > Len(wire_segments)
            THEN Panic("mouse_moved")
            ELSE \E drag_delta \in { vecf_add(drag_state.drag_delta,
                                               delta) } :
                 /\ drag_state' = [drag_state EXCEPT
                                      !.drag_delta = drag_delta]
                 /\ wire_segments' = [wire_segments EXCEPT
                        ![drag_state.wire_segment] =
                            drag_wire_point(@, drag_state.tag,
                                            drag_state.drag_start,
                                            drag_delta)]
                 /\ Returned("mouse_moved", redraw(TRUE))
                 /\ UNCHANGED << components, selection, primary_button_down,
                                 secondary_button_down, sim_state, panicked >>
       ELSE IF selection.tag = "None"
       THEN Panic("mouse_moved")
       ELSE \E sum \in { vecf_add(drag_state.fract_drag_delta, delta) } :
            \E whole \in { vecf_round(sum) } :
            \E r \in { move_selection(components, wire_segments, selection,
                                      to_vec2i(whole)) } :
                /\ drag_state' = [drag_state EXCEPT
                                     !.fract_drag_delta = vecf_sub(sum, whole)]
                /\ components' = r.components
                /\ wire_segments' = r.wire_segments
                /\ selection' = r.selection
                /\ Returned("mouse_moved", redraw(to_vec2i(whole) # Vec2(0, 0)))
                /\ UNCHANGED << primary_button_down, secondary_button_down,
                                sim_state, panicked >>

\* Circuit::move_selection, called for an arrow key
MoveSelection_Key(delta) ==
    /\ ~panicked
    /\ \E r \in { move_selection(components, wire_segments, selection,
                                  delta) } :
           /\ components' = r.components
           /\ wire_segments' = r.wire_segments
           /\ selection' = r.selection
    /\ Called("move_selection")
    /\ UNCHANGED << drag_state, primary_button_down, secondary_button_down,
                    sim_state, panicked >>

\* counterclockwise_rotate_selection, clockwise_rotate_selection and
\* mirror_selection: transform_selection with the closures t stands for
TransformSelection(t) ==
    /\ ~panicked
    /\ \E r \in { transform_selection(components, wire_segments, selection,
                                       t) } :
           /\ components' = r.components
           /\ wire_segments' = r.wire_segments
    /\ Called(t)
    /\ UNCHANGED << selection, drag_state, primary_button_down,
                    secondary_button_down, sim_state, panicked >>

\* retain that returns the kept elements last to first
retain_reversed(seq, removed) ==
    LET RECURSIVE keep(_)
        keep(i) == IF i > Len(seq) THEN << >>
                   ELSE IF i \in removed THEN keep(i + 1)
                   ELSE keep(i + 1) \o << seq[i] >>
    IN  keep(1)

\* Vec::retain: seq without the elements whose index is in removed
retain(seq, removed) ==
    LET RECURSIVE keep(_)
        keep(i) == IF i > Len(seq) THEN << >>
                   ELSE IF i \in removed THEN keep(i + 1)
                   ELSE << seq[i] >> \o keep(i + 1)
    IN  keep(1)

\* Circuit::delete_selection; call also records the selection it found
DeleteSelection ==
    /\ ~panicked
    /\ components' =
          retain(components, { i \in 1 .. Len(components) :
                                  contains_component(selection, i) })
    /\ wire_segments' =
          retain(wire_segments, { i \in 1 .. Len(wire_segments) :
                                     contains_wire_segment(selection, i) })
    /\ selection' = SelectionNone
    /\ call.steps < MaxSteps
    /\ call' = [op |-> "delete_selection", was |-> drag_state.tag,
                steps |-> call.steps + 1, ret |-> "unit",
                deleted |-> selection]
    /\ UNCHANGED << drag_state, primary_button_down, secondary_button_down,
                    sim_state, panicked >>

Next ==
    \/ \E kind \in AddKinds : AddComponent(kind)
    \/ \E pos \in ScreenPositions, drag_mode \in DragModes :
          PrimaryButtonPressed(pos, drag_mode)
    \/ \E pos \in ScreenPositions : PrimaryButtonReleased(pos)
    \/ SecondaryButtonPressed
    \/ \E pos \in ScreenPositions : SecondaryButtonReleased(pos)
    \/ \E delta \in PointerDeltas, drag_mode \in DragModes :
          MouseMoved(delta, drag_mode)
    \/ \E delta \in KeyDeltas : MoveSelection_Key(delta)
    \/ \E t \in { "ccw", "cw", "mirror" } : TransformSelection(t)
    \/ DeleteSelection

Spec == Init /\ [][Next]_vars

(***************************************************************************)
(* C1: whenever primary_button_released returns, drag_state is             *)
(* DragState::None and primary_button_down is false, whatever the drag     *)
(* state was before the call.                                              *)
(***************************************************************************)
C1_ReleaseEndsDrag ==
    (call.op = "primary_button_released" /\ ~panicked) =>
        (drag_state = DragStateNone /\ ~primary_button_down)

\* the release ended the drag of the first endpoint of a wire segment
C1_Witness ==
    /\ call.op = "primary_button_released"
    /\ ~panicked
    /\ call.was = "DraggingWirePointA"
    /\ drag_state = DragStateNone
    /\ ~primary_button_down

(***************************************************************************)
(* C10: in every state the editing operations reach, every wire segment    *)
(* has at most one midpoint and its midpoints are the ones                 *)
(* update_midpoints yields for its endpoint_a and endpoint_b.              *)
(***************************************************************************)
C10_MidpointsFollowRule ==
    \A i \in 1 .. Len(wire_segments) :
        /\ Len(wire_segments[i].midpoints) <= 1
        /\ wire_segments[i] = update_midpoints(wire_segments[i])

(***************************************************************************)
(* SpecBox: the release that ends a box selection.  Init is a drawn        *)
(* circuit (at most one component, at most two wire segments) while the    *)
(* pointer drags a selection box: the primary button is down, the press    *)
(* on empty space has cleared the selection and mouse_moved has left the   *)
(* deadzone with nothing under the point of the press.  The action is      *)
(* primary_button_released.                                                *)
(***************************************************************************)
\* the wires drawn from two grid points
BoxWires ==
    { new_wire(e[1], e[2]) :
        e \in { e \in { Vec2(0, 0), Vec2(2, 1) } \X GridPoints :
                  e[1] # e[2] } }

\* the corner the drag started at and the drag so far (Vec2f, in halves)
BoxStarts == { Vec2(-1, -1), Vec2(1, 1), Vec2(3, 1) }

BoxDeltas == { Vec2(2, 2), Vec2(4, 4), Vec2(6, 6), Vec2(-2, 2) }

InitBox ==
    /\ components \in
          { << >> } \cup
          { << [Component_new("Input") EXCEPT !.position = pos] >> :
               pos \in GridPoints }
    /\ wire_segments \in SeqsUpTo(BoxWires, 2)
    /\ selection = SelectionNone
    /\ \E drag_start \in BoxStarts, drag_delta \in BoxDeltas :
          /\ leaves_deadzone(drag_delta)
          /\ hit_test(components, wire_segments, drag_start, 0) = HitNone
          /\ drag_state = [tag |-> "DrawingBoxSelection",
                           drag_start |-> drag_start,
                           drag_delta |-> drag_delta]
    /\ primary_button_down = TRUE
    /\ secondary_button_down = FALSE
    /\ sim_state = SimStateNone
    /\ panicked = FALSE
    /\ call = [op |-> "mouse_moved", was |-> "DrawingBoxSelection", steps |-> 0,
               ret |-> "true"]

NextBox == \E pos \in ScreenPositions : PrimaryButtonReleased(pos)

SpecBox == InitBox /\ [][NextBox]_vars

\* the rectangle spanned by drag_start and drag_start + drag_delta
spanned(ds) ==
    Rectangle(Max2(ds.drag_start.y, ds.drag_start.y + ds.drag_delta.y),
              Min2(ds.drag_start.y, ds.drag_start.y + ds.drag_delta.y),
              Min2(ds.drag_start.x, ds.drag_start.x + ds.drag_delta.x),
              Max2(ds.drag_start.x, ds.drag_start.x + ds.drag_delta.x))

\* is the grid point v inside the rectangle r (r counts halves)
inside(r, v) ==
    r.left <= 2 * v.x /\ 2 * v.x <= r.right /\
    r.bottom <= 2 * v.y /\ 2 * v.y <= r.top

\* the components whose position lies in r
components_inside(r) ==
    { i \in 1 .. Len(components) : inside(r, components[i].position) }

\* the wire segments with an endpoint or a midpoint in r
wires_with_point_inside(r) ==
    { i \in 1 .. Len(wire_segments) :
         \E k \in 1 .. Len(points_of(wire_segments[i])) :
             inside(r, points_of(wire_segments[i])[k]) }

\* the wire segments with an endpoint in r
wires_with_endpoint_inside(r) ==
    { i \in 1 .. Len(wire_segments) :
         \/ inside(r, wire_segments[i].endpoint_a)
         \/ inside(r, wire_segments[i].endpoint_b) }

\* the center, in halves, of the bounding box of the positions of the
\* components cs and of all points of the wire segments ws
center_of(cs, ws) ==
    LET pts == { components[i].position : i \in cs } \cup
               UNION { Range(points_of(wire_segments[i])) : i \in ws }
    IN  Vec2(MinOf({ v.x : v \in pts }) + MaxOf({ v.x : v \in pts }),
             MinOf({ v.y : v \in pts }) + MaxOf({ v.y : v \in pts }))

\* the selection that holds exactly cs and ws: a single selection for one
\* element, Multi with the center of the bounding box for more
selection_of(cs, ws) ==
    IF Cardinality(cs) = 1 /\ ws = { }
    THEN { SelComponent(i) : i \in cs }
    ELSE IF cs = { } /\ Cardinality(ws) = 1
    THEN { SelWireSegment(i) : i \in ws }
    ELSE { SelMulti(cs, ws, center_of(cs, ws)) }

(***************************************************************************)
(* C11: a release in DrawingBoxSelection selects exactly the components    *)
(* whose position lies in the spanned rectangle and the wire segments      *)
(* with an endpoint or a midpoint in it: Selection::Component or           *)
(* Selection::WireSegment for a single hit, Selection::Multi with those    *)
(* index sets and the center of their bounding box for more.               *)
(***************************************************************************)
C11_BoxSelectsPointsInside ==
    [][ (/\ drag_state.tag = "DrawingBoxSelection"
         /\ call'.op = "primary_button_released"
         /\ ~panicked'
         /\ components_inside(spanned(drag_state))
               \cup wires_with_point_inside(spanned(drag_state)) # { })
        => selection' \in
              selection_of(components_inside(spanned(drag_state)),
                           wires_with_point_inside(spanned(drag_state)))
      ]_vars

\* the same with the wire segments that have an endpoint in the rectangle
C11_BoxSelectsEndpointsInside ==
    [][ (/\ drag_state.tag = "DrawingBoxSelection"
         /\ call'.op = "primary_button_released"
         /\ ~panicked'
         /\ components_inside(spanned(drag_state))
               \cup wires_with_endpoint_inside(spanned(drag_state)) # { })
        => selection' \in
              selection_of(components_inside(spanned(drag_state)),
                           wires_with_endpoint_inside(spanned(drag_state)))
      ]_vars

(***************************************************************************)
(* Simulation (circuit.rs 1290-1558).  The simulator is the external gsim  *)
(* engine; the model keeps of it what the circuit hands over: the width    *)
(* and the drive of every wire and the gates with their input and output   *)
(* wires.  Wire and component handles are the positions in those lists,    *)
(* INVALID is no handle.  The drive of a wire is << >> for high impedance  *)
(* and << v >> for the value v.                                            *)
(***************************************************************************)
\* gsim::WireId::INVALID, gsim::ComponentId::INVALID
INVALID == 0

\* An input's value is a u32 of which only the low bits take part in any
\* computation (from_int keeps `width` of them); the model keeps the low 16
\* bits, so that *value = !*value, which complements every bit, becomes
\* VALUE_MASK - value.
VALUE_MASK == 65535

GateKinds ==
    { "AndGate", "OrGate", "XorGate", "NandGate", "NorGate", "XnorGate" }

\* SimulatorBuilder::default()
SimulatorBuilder == [wires |-> << >>, drives |-> << >>, gates |-> << >>]

\* every segment given the simulator wire of the first segment's group
assign_sim_wires_first_group(wires, group_map) ==
    [i \in 1 .. Len(wires) |-> [wires[i] EXCEPT !.sim_wires = << group_map[1] >>]]

\* the segments after the loop of circuit.rs 1336-1343: the builder hands
\* out the wire handles in the order of the groups, so every segment holds
\* the number of its group
assign_sim_wires(wires, group_map) ==
    [i \in 1 .. Len(wires) |-> [wires[i] EXCEPT !.sim_wires = << group_map[i] >>]]

\* the builder after builder.add_wire(group_width) for every group
add_wires(builder, widths) ==
    [builder EXCEPT !.wires  = widths,
                    !.drives = [g \in 1 .. Len(widths) |-> << >>]]

\* the inner loop of every arm (e.g. circuit.rs 1358-1365): sim_wires[0] of
\* the first segment with an endpoint at pos, INVALID for none
RECURSIVE attached_wire(_, _, _)
attached_wire(wires, i, pos) ==
    IF i > Len(wires) THEN INVALID
    ELSE IF wires[i].endpoint_a = pos \/ wires[i].endpoint_b = pos
    THEN wires[i].sim_wires[1]
    ELSE attached_wire(wires, i + 1, pos)

\* the wires vector of a gate arm (circuit.rs 1390-1400): one handle for
\* every anchor that has a segment, in anchor order
gate_wires(c, wires) ==
    SelectSeq([k \in 1 .. Len(kind_anchors(c.kind)) |->
                  attached_wire(wires, 1, anchors(c)[k].position)],
              LAMBDA w : w # INVALID)

\* one pass of the loop over the components (circuit.rs 1347-1501) from
\* component i on: [panic, components, builder].  few_inputs_ok is the
\* answer of the engine's add_*_gate to fewer than two input wires.
RECURSIVE build_components(_, _, _, _, _)
build_components(comps, wires, i, builder, few_inputs_ok) ==
    IF i > Len(comps)
    THEN [panic |-> FALSE, components |-> comps, builder |-> builder]
    ELSE IF comps[i].kind \in { "Input", "Output" }
    THEN IF attached_wire(wires, 1, anchors(comps[i])[1].position) = INVALID
         THEN [panic |-> TRUE, components |-> comps, builder |-> builder]
         ELSE build_components(
                  [comps EXCEPT ![i].sim =
                      attached_wire(wires, 1, anchors(comps[i])[1].position)],
                  wires, i + 1, builder, few_inputs_ok)
    ELSE IF comps[i].kind \in GateKinds
    THEN IF \/ gate_wires(comps[i], wires) = << >>
            \/ (Len(gate_wires(comps[i], wires)) < 3 /\ ~few_inputs_ok)
         THEN [panic |-> TRUE, components |-> comps, builder |-> builder]
         ELSE build_components(
                  [comps EXCEPT ![i].sim = Len(builder.gates) + 1],
                  wires, i + 1,
                  [builder EXCEPT !.gates = Append(@,
                      [kind   |-> comps[i].kind,
                       inputs |-> SubSeq(gate_wires(comps[i], wires), 1,
                                     Len(gate_wires(comps[i], wires)) - 1),
                       output |-> gate_wires(comps[i], wires)[
                                     Len(gate_wires(comps[i], wires))]])],
                  few_inputs_ok)
    ELSE [panic |-> TRUE, components |-> comps, builder |-> builder]

\* LogicState::from_int(value) on a wire of the given width
from_int(value, width) == value % (2 ^ width)

\* the initial drives (circuit.rs 1503-1516): every input drives its wire,
\* a later input on the same wire replaces the drive of an earlier one
RECURSIVE set_initial_drives(_, _, _)
set_initial_drives(comps, i, builder) ==
    IF i > Len(comps) THEN builder
    ELSE IF comps[i].kind = "Input"
    THEN set_initial_drives(comps, i + 1,
             [builder EXCEPT !.drives[comps[i].sim] =
                 << from_int(comps[i].value,
                             builder.wires[comps[i].sim]) >>])
    ELSE set_initial_drives(comps, i + 1, builder)

\* the number of drivers of wire w: its drive and the gates that output on it
drivers(sim, w) ==
    Len(sim.drives[w])
    + Cardinality({ g \in 1 .. Len(sim.gates) : sim.gates[g].output = w })

\* The results sim.run_sim(max_steps) can have (the engine is external):
\* Ok, MaxStepsReached (max_steps is the caller's), or Err with a non-empty
\* set of wires on which drivers disagree, each of them a wire that has
\* more than one driver
run_results(sim) ==
    { [tag |-> "Ok"], [tag |-> "MaxStepsReached"] } \cup
    { [tag |-> "Err", conflicts |-> c] :
        c \in (SUBSET { w \in 1 .. Len(sim.wires) : drivers(sim, w) >= 2 })
              \ { { } } }

\* advance_simulation that reports only the first segment of a conflict
advance_simulation_first_segment(wires, sim, clock_state, result) ==
    CASE result.tag = "Ok" ->
            [panic |-> FALSE,
             sim_state |-> [tag |-> "Active", sim |-> sim,
                            clock_state |-> clock_state]]
      [] result.tag = "MaxStepsReached" ->
            [panic |-> TRUE, sim_state |-> SimStateNone]
      [] result.tag = "Err" ->
            [panic |-> FALSE,
             sim_state |->
                [tag |-> "Conflict", sim |-> sim,
                 conflict_segments |->
                    { i \in 1 .. Len(wires) :
                         /\ \E k \in 1 .. Len(wires[i].sim_wires) :
                               wires[i].sim_wires[k] \in result.conflicts
                         /\ \A j \in 1 .. (i - 1) :
                               \A k \in 1 .. Len(wires[j].sim_wires) :
                                  wires[j].sim_wires[k] \notin result.conflicts }]]

\* Circuit::advance_simulation for a result of sim.run_sim: [panic,
\* sim_state].  MaxStepsReached is todo!(), a panic before self.sim_state is
\* assigned; panic |-> TRUE leaves sim_state to the caller.
advance_simulation(wires, sim, clock_state, result) ==
    CASE result.tag = "Ok" ->
            [panic |-> FALSE,
             sim_state |-> [tag |-> "Active", sim |-> sim,
                            clock_state |-> clock_state]]
      [] result.tag = "MaxStepsReached" ->
            [panic |-> TRUE, sim_state |-> SimStateNone]
      [] result.tag = "Err" ->
            [panic |-> FALSE,
             sim_state |->
                [tag |-> "Conflict", sim |-> sim,
                 conflict_segments |->
                    { i \in 1 .. Len(wires) :
                         \E k \in 1 .. Len(wires[i].sim_wires) :
                            wires[i].sim_wires[k] \in result.conflicts }]]

\* ComponentKind::reset_sim_ids
reset_sim_ids(c) == [c EXCEPT !.sim = INVALID]

\* stop_simulation that keeps the handles of the wire segments
stop_simulation_keeps_wires(comps, wires) ==
    [sim_state     |-> SimStateNone,
     components    |-> [i \in 1 .. Len(comps) |-> reset_sim_ids(comps[i])],
     wire_segments |-> wires]

\* Circuit::stop_simulation: the fields it leaves
stop_simulation(comps, wires) ==
    [sim_state     |-> SimStateNone,
     components    |-> [i \in 1 .. Len(comps) |-> reset_sim_ids(comps[i])],
     wire_segments |-> [i \in 1 .. Len(wires) |->
                           [wires[i] EXCEPT !.sim_wires = << >>]]]

(***************************************************************************)
(* SpecSim: starting, stepping and stopping the simulation, clicks on      *)
(* inputs while it runs, and the deletion of the selection in between.     *)
(* Init is a drawn circuit with no simulation: an AND gate fed by two      *)
(* inputs with its output anchor left open, the same gate with an output   *)
(* port or a third input on its output, or two inputs joined by a single   *)
(* wire segment.  call also records the result of the simulator run.       *)
(***************************************************************************)
placed(kind, pos) == [Component_new(kind) EXCEPT !.position = pos]

\* inputs A at (0,0) and B at (2,0), their anchors at (0,1) and (2,1); the
\* gate at (1,5) with its input anchors at (0,3) and (2,3), its output
\* anchor at (1,7)
AndCircuit ==
    [components    |-> << placed("Input", Vec2(0, 0)),
                          placed("Input", Vec2(2, 0)),
                          placed("AndGate", Vec2(1, 5)) >>,
     wire_segments |-> << new_wire(Vec2(0, 1), Vec2(0, 3)),
                          new_wire(Vec2(2, 1), Vec2(2, 3)) >>]

\* the same with an output port at (1,9), its anchor at (1,8), wired to the
\* gate's output
AndOutCircuit ==
    [components    |-> Append(AndCircuit.components,
                              placed("Output", Vec2(1, 9))),
     wire_segments |-> Append(AndCircuit.wire_segments,
                              new_wire(Vec2(1, 7), Vec2(1, 8)))]

\* the gate with a third input C at (1,9), its anchor at (1,10), wired to
\* the gate's output by two segments: C and the gate drive the same wire
DrivenOutCircuit ==
    [components    |-> Append(AndCircuit.components,
                              placed("Input", Vec2(1, 9))),
     wire_segments |-> AndCircuit.wire_segments \o
                          << new_wire(Vec2(1, 7), Vec2(1, 8)),
                             new_wire(Vec2(1, 8), Vec2(1, 10)) >>]

\* two inputs of the given values, B of the given width, joined by one wire
JoinedInputs(value_a, value_b, width_b) ==
    [components    |-> << [placed("Input", Vec2(0, 0)) EXCEPT
                              !.value = value_a],
                          [placed("Input", Vec2(1, 0)) EXCEPT
                              !.value = value_b, !.width = width_b] >>,
     wire_segments |-> << new_wire(Vec2(0, 1), Vec2(1, 1)) >>]

SimCircuits ==
    { AndCircuit, AndOutCircuit, DrivenOutCircuit } \cup
    { JoinedInputs(a, b, w) : a \in { 0, 1 }, b \in { 0, 1 }, w \in { 1, 2 } }

\* pointer positions in pixels: on input A, on empty space and on the gate
SimClickPositions == { Vec2(0, 0), Vec2(40, 0), Vec2(10, 50) }

NoResult == [tag |-> "None"]

InitSim ==
    /\ \E c \in SimCircuits :
          /\ components = c.components
          /\ wire_segments = c.wire_segments
    /\ selection \in { SelectionNone, SelWireSegment(1) }
    /\ drag_state = DragStateNone
    /\ primary_button_down = FALSE
    /\ secondary_button_down = FALSE
    /\ sim_state = SimStateNone
    /\ panicked = FALSE
    /\ call = [op |-> "new", was |-> "None", prev |-> "new", steps |-> 0,
               result |-> NoResult]

\* the bookkeeping of one simulation operation: the call and the result of
\* its simulator run, if it ran
CalledSim(name, result) ==
    /\ call.steps < MaxSteps
    /\ call' = [op |-> name, was |-> sim_state.tag, prev |-> call.op,
                steps |-> call.steps + 1, result |-> result]

\* Circuit::start_simulation
StartSimulation ==
    /\ ~panicked
    /\ \E few_inputs_ok \in BOOLEAN :
       \E g \in { find_wire_groups(wire_segments) } :
       \E w \in { find_wire_group_widths(g.groups, wire_segments,
                                         components) } :
          IF ~w.ok
          THEN /\ panicked' = TRUE
               /\ CalledSim("start_simulation", NoResult)
               /\ UNCHANGED << components, wire_segments, sim_state >>
          ELSE \E ws \in { assign_sim_wires(wire_segments, g.group_map) } :
               \E b \in { build_components(components, ws, 1,
                             add_wires(SimulatorBuilder, w.widths),
                             few_inputs_ok) } :
                  /\ wire_segments' = ws
                  /\ components' = b.components
                  /\ IF b.panic
                     THEN /\ panicked' = TRUE
                          /\ CalledSim("start_simulation", NoResult)
                          /\ UNCHANGED sim_state
                     ELSE \E sim \in { set_initial_drives(b.components, 1,
                                                          b.builder) } :
                          \E result \in run_results(sim) :
                          \E r \in { advance_simulation(ws, sim, FALSE,
                                                        result) } :
                             /\ panicked' = r.panic
                             /\ sim_state' = IF r.panic THEN sim_state
                                             ELSE r.sim_state
                             /\ CalledSim("start_simulation", result)
    /\ UNCHANGED << selection, drag_state, primary_button_down,
                    secondary_button_down >>

\* the loop of step_simulation (circuit.rs 1538-1542): every clock input
\* drives its wire with clk
RECURSIVE set_clock_drives(_, _, _, _)
set_clock_drives(comps, i, sim, clk) ==
    IF i > Len(comps) THEN sim
    ELSE IF comps[i].kind = "ClockInput" /\ comps[i].sim # INVALID
    THEN set_clock_drives(comps, i + 1,
                          [sim EXCEPT !.drives[comps[i].sim] = << clk >>], clk)
    ELSE set_clock_drives(comps, i + 1, sim, clk)

\* Circuit::step_simulation.  self.sim_state is swapped out before the
\* checks, so a panic leaves SimState::None behind.
StepSimulation ==
    /\ ~panicked
    /\ IF \/ sim_state.tag # "Active"
          \/ \E i \in 1 .. Len(components) :
                components[i].kind = "ClockInput" /\ components[i].sim = INVALID
       THEN /\ panicked' = TRUE
            /\ sim_state' = SimStateNone
            /\ CalledSim("step_simulation", NoResult)
       ELSE \E clock_state \in { ~sim_state.clock_state } :
            \E sim \in { set_clock_drives(components, 1, sim_state.sim,
                            IF clock_state THEN 1 ELSE 0) } :
            \E result \in run_results(sim) :
            \E r \in { advance_simulation(wire_segments, sim, clock_state,
                                          result) } :
               /\ panicked' = r.panic
               /\ sim_state' = r.sim_state
               /\ CalledSim("step_simulation", result)
    /\ UNCHANGED << components, wire_segments, selection, drag_state,
                    primary_button_down, secondary_button_down >>

\* Circuit::stop_simulation
StopSimulation ==
    /\ ~panicked
    /\ \E r \in { stop_simulation(components, wire_segments) } :
          /\ sim_state' = r.sim_state
          /\ components' = r.components
          /\ wire_segments' = r.wire_segments
    /\ CalledSim("stop_simulation", NoResult)
    /\ UNCHANGED << selection, drag_state, primary_button_down,
                    secondary_button_down, panicked >>

\* is the hit a 1-bit input (circuit.rs 454-462)
hits_toggle(comps, hit) ==
    /\ hit.tag \in { "Component", "ComponentAnchor" }
    /\ comps[hit.index].kind = "Input"
    /\ comps[hit.index].width = 1

\* the bookkeeping of a press while the simulation is active: the pointer
\* position and what the press returned, "unit" for a press that panics
PressedSim(pos, result, ret) ==
    /\ call.steps < MaxSteps
    /\ call' = [op |-> "primary_button_pressed", was |-> sim_state.tag,
                prev |-> call.op, steps |-> call.steps + 1,
                result |-> result, pos |-> pos, ret |-> ret]

\* primary_button_pressed without the SimState::Active branch: the press
\* starts a drag gesture as it does while editing
PrimaryButtonPressed_Active_dragging(pos) ==
    /\ ~panicked
    /\ sim_state.tag = "Active"
    /\ \E hit \in { hit_test(components, wire_segments, to_logical(pos), 0) } :
       \E r \in { primary_button_pressed(selection, hit, to_logical(pos),
                                         "BoxSelection", primary_button_down) } :
           /\ drag_state' = r.drag_state
           /\ selection' = r.selection
           /\ primary_button_down' = r.primary_button_down
           /\ PressedSim(pos, NoResult, "false")
    /\ UNCHANGED << components, wire_segments, secondary_button_down,
                    sim_state, panicked >>

\* Circuit::primary_button_pressed while the simulation is active (circuit.rs
\* 448-481): a click on a 1-bit input toggles it and runs the simulator
PrimaryButtonPressed_Active(pos) ==
    /\ ~panicked
    /\ sim_state.tag = "Active"
    /\ IF drag_state.tag # "None"
       THEN /\ panicked' = TRUE
            /\ PressedSim(pos, NoResult, "unit")
            /\ UNCHANGED << components, sim_state, primary_button_down >>
       ELSE \E hit \in { hit_test(components, wire_segments,
                                   to_logical(pos), 0) } :
            IF ~hits_toggle(components, hit)
            THEN /\ primary_button_down' = TRUE
                 /\ PressedSim(pos, NoResult, "false")
                 /\ UNCHANGED << components, sim_state, panicked >>
            ELSE \E value \in { VALUE_MASK - components[hit.index].value } :
                 /\ components' = [components EXCEPT
                                      ![hit.index].value = value]
                 /\ IF components[hit.index].sim = INVALID
                    THEN /\ panicked' = TRUE
                         /\ sim_state' = SimStateNone
                         /\ PressedSim(pos, NoResult, "unit")
                         /\ UNCHANGED primary_button_down
                    ELSE \E sim \in { [sim_state.sim EXCEPT
                                         !.drives[components[hit.index].sim] =
                                             << from_int(value, 1) >>] } :
                         \E result \in run_results(sim) :
                         \E r \in { advance_simulation(wire_segments, sim,
                                       sim_state.clock_state, result) } :
                            /\ panicked' = r.panic
                            /\ sim_state' = r.sim_state
                            /\ primary_button_down' =
                                  IF r.panic THEN primary_button_down
                                  ELSE TRUE
                            /\ PressedSim(pos, result,
                                          IF r.panic THEN "unit" ELSE "true")
    /\ UNCHANGED << wire_segments, selection, drag_state,
                    secondary_button_down >>

\* Circuit::delete_selection, recorded as a simulation-time edit
DeleteSelection_Sim ==
    /\ ~panicked
    /\ components' =
          retain(components, { i \in 1 .. Len(components) :
                                  contains_component(selection, i) })
    /\ wire_segments' =
          retain(wire_segments, { i \in 1 .. Len(wire_segments) :
                                     contains_wire_segment(selection, i) })
    /\ selection' = SelectionNone
    /\ CalledSim("delete_selection", NoResult)
    /\ UNCHANGED << drag_state, primary_button_down, secondary_button_down,
                    sim_state, panicked >>

NextSim ==
    \/ StartSimulation
    \/ StepSimulation
    \/ StopSimulation
    \/ \E pos \in SimClickPositions : PrimaryButtonPressed_Active(pos)
    \/ DeleteSelection_Sim

SpecSim == InitSim /\ [][NextSim]_vars

\* the drawn circuit is c: the same components at the same places and the
\* same wire segments
drawn(c) ==
    /\ Len(components) = Len(c.components)
    /\ \A i \in 1 .. Len(components) :
          /\ components[i].kind = c.components[i].kind
          /\ components[i].position = c.components[i].position
    /\ Len(wire_segments) = Len(c.wire_segments)
    /\ \A i \in 1 .. Len(wire_segments) :
          /\ wire_segments[i].endpoint_a = c.wire_segments[i].endpoint_a
          /\ wire_segments[i].endpoint_b = c.wire_segments[i].endpoint_b

\* C12: with two 1-bit inputs wired to the inputs of an AND gate whose output
\* anchor has no wire, start_simulation (its run not cut off by max_steps)
\* ends in SimState::Active with the gate registered with the wires of A and
\* B as its two inputs and an output wire that is neither of them, and a
\* click on input A never makes the simulator report a driver conflict.
C12_AndGateRegistered ==
    (drawn(AndCircuit) /\ call.result.tag # "MaxStepsReached") =>
        /\ call.op = "start_simulation" =>
              /\ ~panicked
              /\ sim_state.tag = "Active"
              /\ components[3].sim \in 1 .. Len(sim_state.sim.gates)
              /\ sim_state.sim.gates[components[3].sim].inputs =
                    << components[1].sim, components[2].sim >>
              /\ sim_state.sim.gates[components[3].sim].output \notin
                    { components[1].sim, components[2].sim }
        /\ call.op = "primary_button_pressed" => call.result.tag # "Err"

\* the drawn circuit is two 1-bit inputs of different values joined by a
\* single wire segment
joined_inputs_differ ==
    \E a \in { 0, 1 } : \E b \in { 0, 1 } :
        /\ a # b
        /\ drawn(JoinedInputs(a, b, 1))
        /\ components[1].value = a /\ components[1].width = 1
        /\ components[2].value = b /\ components[2].width = 1

\* C13: with a single wire segment joining the anchors of two 1-bit inputs
\* that hold different values, start_simulation (its run not cut off by
\* max_steps) ends in SimState::Conflict and conflict_segments contains that
\* segment.
C13_JoinedInputsConflict ==
    (/\ call.op = "start_simulation"
     /\ call.result.tag # "MaxStepsReached"
     /\ joined_inputs_differ) =>
        /\ sim_state.tag = "Conflict"
        /\ 1 \in sim_state.conflict_segments

\* the segments that hold one of the given simulator wires
segments_of(sim_wires) ==
    { i \in 1 .. Len(wire_segments) :
         \E k \in 1 .. Len(wire_segments[i].sim_wires) :
            wire_segments[i].sim_wires[k] \in sim_wires }

\* C14: whenever a run of the simulator (at the start, at a step or after a
\* click on an input) reports a driver conflict, sim_state is Conflict and
\* conflict_segments is exactly the set of segments whose cached simulator
\* wire is among the reported wires.
C14_ConflictSegments ==
    call.result.tag = "Err" =>
        /\ ~panicked
        /\ sim_state.tag = "Conflict"
        /\ sim_state.conflict_segments = segments_of(call.result.conflicts)

\* a conflict on the wire of two segments while other segments stay out
C14_Witness ==
    /\ call.result.tag = "Err"
    /\ sim_state.tag = "Conflict"
    /\ Cardinality(sim_state.conflict_segments) = 2
    /\ Len(wire_segments) = 4

\* C15: when a run of the simulator (at the start, at a step or after a click
\* on an input) ends with MaxStepsReached, the operation returns normally
\* and does not panic.
C15_MaxStepsNoPanic ==
    call.result.tag = "MaxStepsReached" => ~panicked

\* some wire group touches anchors of two different widths
touches_two_widths ==
    \E g \in Range(find_wire_groups(wire_segments).groups) :
        Cardinality(anchor_widths_of(g)) >= 2

\* C16: when a wire group touches anchors of two different widths,
\* start_simulation leaves no running simulation behind: sim_state becomes
\* neither Active nor Conflict and no wire segment and no component is given
\* a simulator handle.
C16_WidthConflictStartsNothing ==
    [][(/\ call'.op = "start_simulation"
        /\ call' # call
        /\ touches_two_widths) =>
           /\ sim_state'.tag \notin { "Active", "Conflict" }
           /\ Len(wire_segments') = Len(wire_segments)
           /\ \A i \in 1 .. Len(wire_segments) :
                 wire_segments'[i].sim_wires = wire_segments[i].sim_wires
           /\ Len(components') = Len(components)
           /\ \A i \in 1 .. Len(components) :
                 components'[i].sim = components[i].sim]_vars

\* start_simulation was called on inputs of widths 1 and 2 on one segment
C16_Witness ==
    /\ call.op = "start_simulation"
    /\ touches_two_widths
    /\ components[1].width = 1
    /\ components[2].width = 2
    /\ wire_segments[1].sim_wires = << >>

\* no wire segment and no component holds a simulator handle
no_handles ==
    /\ \A i \in 1 .. Len(wire_segments) : wire_segments[i].sim_wires = << >>
    /\ \A i \in 1 .. Len(components) : components[i].sim = INVALID

\* C17: after stop_simulation, called in any state, sim_state is None, every
\* sim_wires is empty and every component handle is INVALID; after a
\* start_simulation that follows it and builds a simulator, every wire
\* segment holds exactly one handle, the wire the new simulator has for the
\* segment's group.
C17_StopClearsHandles ==
    /\ call.op = "stop_simulation" =>
          /\ sim_state = SimStateNone
          /\ no_handles
    /\ (/\ call.op = "start_simulation"
        /\ call.prev = "stop_simulation"
        /\ sim_state.tag \in { "Active", "Conflict" }) =>
          \A i \in 1 .. Len(wire_segments) :
             /\ wire_segments[i].sim_wires =
                   << find_wire_groups(wire_segments).group_map[i] >>
             /\ wire_segments[i].sim_wires[1] \in
                   1 .. Len(sim_state.sim.wires)

\* a simulation with a conflict was stopped
C17_Witness ==
    /\ call.op = "stop_simulation"
    /\ call.was = "Conflict"
    /\ Len(wire_segments) >= 2
    /\ no_handles

\* Circuit::selection_box: << >> for None
selection_box(ds) ==
    IF ds.tag = "DrawingBoxSelection"
    THEN << ds.drag_start, vecf_add(ds.drag_start, ds.drag_delta) >>
    ELSE << >>

\* C18: whenever primary_button_pressed, primary_button_released,
\* secondary_button_pressed, secondary_button_released or mouse_moved returns
\* false, nothing the renderer reads differs from before the call: the
\* components, the wire segments, the selection and selection_box() are the
\* same (offset and zoom are not touched by these operations).
C18_FalseMeansNothingToRedraw ==
    [][call'.ret = "false" =>
          /\ components' = components
          /\ wire_segments' = wire_segments
          /\ selection' = selection
          /\ selection_box(drag_state') = selection_box(drag_state)]_vars

(***************************************************************************)
(* SpecDrag: the drag of a wire endpoint with a deletion in between.  Init *)
(* is a circuit of two wire segments right after mouse_moved has left the  *)
(* deadzone of a press on an endpoint of one of them in box-selection      *)
(* mode: the press has selected that segment, drag_state refers to it by   *)
(* its index and the primary button is down.  Only delete_selection        *)
(* clears the selection while the drag goes on, so a wire drag with        *)
(* Selection::None is one whose segment was deleted.                       *)
(***************************************************************************)
DragWires ==
    { new_wire(e[1], e[2]) :
        e \in { Vec2(0, 0), Vec2(2, 1) } \X
              { Vec2(1, 1), Vec2(2, 2), Vec2(0, 2), Vec2(2, 0) } }

\* the pointer's way since the press (Vec2f, in halves)
DragDeltas == { Vec2(2, 0), Vec2(0, 2) }

InitDrag ==
    /\ components = << >>
    /\ wire_segments \in [1 .. 2 -> DragWires]
    /\ \E k \in 1 .. 2, tag \in { "WirePointA", "WirePointB" },
          drag_delta \in DragDeltas :
          \E drag_start \in
                { to_vec2f(IF tag = "WirePointA"
                           THEN wire_segments[k].endpoint_a
                           ELSE wire_segments[k].endpoint_b) } :
             /\ leaves_deadzone(drag_delta)
             /\ hit_test(components, wire_segments, drag_start, 0) =
                   [tag |-> tag, index |-> k]
             /\ selection = SelWireSegment(k)
             /\ drag_state = [tag |-> IF tag = "WirePointA"
                                      THEN "DraggingWirePointA"
                                      ELSE "DraggingWirePointB",
                              wire_segment |-> k,
                              drag_start   |-> drag_start,
                              drag_delta   |-> drag_delta]
    /\ primary_button_down = TRUE
    /\ secondary_button_down = FALSE
    /\ sim_state = SimStateNone
    /\ panicked = FALSE
    /\ call = [op |-> "mouse_moved", was |-> "Deadzone", steps |-> 0,
               ret |-> "true"]

NextDrag ==
    \/ DeleteSelection
    \/ \E delta \in PointerDeltas, drag_mode \in DragModes :
          MouseMoved(delta, drag_mode)
    \/ \E pos \in ScreenPositions : PrimaryButtonReleased(pos)

SpecDrag == InitDrag /\ [][NextDrag]_vars

\* a wire endpoint is being dragged and its segment has been deleted
dragged_wire_deleted ==
    /\ drag_state.tag \in { "DraggingWirePointA", "DraggingWirePointB" }
    /\ selection.tag = "None"

\* C19: once delete_selection has removed the wire segment whose endpoint is
\* being dragged, every later mouse_moved or primary_button_released either
\* panics or leaves all remaining wire segments unchanged.
C19_DragNeverTouchesOtherWire ==
    [][(/\ dragged_wire_deleted
        /\ call'.op \in { "mouse_moved", "primary_button_released" }) =>
           (panicked' \/ wire_segments' = wire_segments)]_vars

(***************************************************************************)
(* SpecDelete: delete_selection on a drawn circuit of at most two          *)
(* components and three wire segments with any selection the editor can    *)
(* hold on it: none, one component, one wire segment, or a Multi of two    *)
(* or more elements with the center of their bounding box.                 *)
(***************************************************************************)
DeleteComponents ==
    SeqsUpTo({ placed("Input", Vec2(0, 0)), placed("Input", Vec2(2, 2)) }, 2)

DeleteWires ==
    SeqsUpTo({ new_wire(Vec2(0, 0), Vec2(1, 1)),
               new_wire(Vec2(2, 1), Vec2(2, 2)),
               new_wire(Vec2(0, 2), Vec2(2, 0)) }, 3)

\* the selections over comps and wires
selections_on(comps, wires) ==
    { SelectionNone }
    \cup { SelComponent(i) : i \in 1 .. Len(comps) }
    \cup { SelWireSegment(i) : i \in 1 .. Len(wires) }
    \cup { SelMulti(e[1], e[2],
               rect_center(find_selection_bounding_box(comps, wires,
                                                       e[1], e[2]))) :
             e \in { e \in (SUBSET (1 .. Len(comps))) \X
                           (SUBSET (1 .. Len(wires))) :
                       Cardinality(e[1]) + Cardinality(e[2]) >= 2 } }

InitDelete ==
    /\ components \in DeleteComponents
    /\ wire_segments \in DeleteWires
    /\ selection \in selections_on(components, wire_segments)
    /\ drag_state = DragStateNone
    /\ primary_button_down = FALSE
    /\ secondary_button_down = FALSE
    /\ sim_state = SimStateNone
    /\ panicked = FALSE
    /\ call = [op |-> "new", was |-> "None", steps |-> 0, ret |-> "unit"]

NextDelete == DeleteSelection

SpecDelete == InitDelete /\ [][NextDelete]_vars

\* after is before without the elements at the indices in gone, the others
\* unchanged and in their order: the i-th element kept stands at the
\* position that counts the kept indices up to i
without(before, after, gone) ==
    /\ Len(after) = Cardinality((1 .. Len(before)) \ gone)
    /\ \A i \in (1 .. Len(before)) \ gone :
          after[Cardinality({ k \in (1 .. i) \ gone : TRUE })] = before[i]

\* C20: delete_selection removes exactly the selected components and wire
\* segments (of a Component, a WireSegment or a Multi selection), keeps the
\* others unchanged in their order and leaves Selection::None; with
\* Selection::None it changes nothing.
C20_DeleteRemovesSelection ==
    [][call'.op = "delete_selection" =>
          /\ without(components, components',
                     { i \in 1 .. Len(components) :
                          contains_component(selection, i) })
          /\ without(wire_segments, wire_segments',
                     { i \in 1 .. Len(wire_segments) :
                          contains_wire_segment(selection, i) })
          /\ selection' = SelectionNone
          /\ selection = SelectionNone =>
                /\ components' = components
                /\ wire_segments' = wire_segments
          /\ UNCHANGED << drag_state, primary_button_down,
                          secondary_button_down, sim_state, panicked >>]_vars

\* a Multi selection was deleted from between elements that stay: a
\* component and two wire segments are left
C20_Witness ==
    /\ call.op = "delete_selection"
    /\ call.deleted.tag = "Multi"
    /\ call.deleted.components # { }
    /\ 2 \in call.deleted.wire_segments
    /\ Len(components) = 1
    /\ Len(wire_segments) = 2
    /\ wire_segments[1] # wire_segments[2]
    /\ selection = SelectionNone

\* C21: in every reachable state a drag_state other than None implies
\* primary_button_down, and a primary_button_pressed that finds a gesture in
\* progress fails its assertion before it changes any state: the drag
\* state, the selection, the circuit and the button flags stay as they were.
C21_OneGestureAtATime ==
    /\ [](drag_state.tag # "None" => primary_button_down)
    /\ [][(call'.op = "primary_button_pressed" /\ drag_state.tag # "None") =>
             /\ panicked'
             /\ UNCHANGED << components, wire_segments, selection,
                             drag_state, primary_button_down,
                             secondary_button_down, sim_state >>]_vars

\* a press was made while the endpoint of a drawn wire was being dragged
C21_Witness ==
    /\ call.op = "primary_button_pressed"
    /\ panicked
    /\ drag_state.tag = "DraggingWirePointB"
    /\ primary_button_down
    /\ Len(wire_segments) >= 1

(***************************************************************************)
(* SpecRotation: the rotations of one component.  Init is a circuit of a   *)
(* single selected component of any kind, at any grid point, mirrored or   *)
(* not, in any rotation; the actions are the two rotate operations and     *)
(* the mirror operation on the selection.                                  *)
(***************************************************************************)
InitRotation ==
    /\ \E kind \in ComponentKinds, pos \in GridPoints, m \in BOOLEAN,
          r \in Rotations :
          components = << [placed(kind, pos) EXCEPT !.mirrored = m,
                                                   !.rotation = r] >>
    /\ wire_segments = << >>
    /\ selection = SelComponent(1)
    /\ drag_state = DragStateNone
    /\ primary_button_down = FALSE
    /\ secondary_button_down = FALSE
    /\ sim_state = SimStateNone
    /\ panicked = FALSE
    /\ call = [op |-> "new", was |-> "None", steps |-> 0, ret |-> "unit"]

NextRotation == \E t \in { "ccw", "cw", "mirror" } : TransformSelection(t)

SpecRotation == InitRotation /\ [][NextRotation]_vars

\* the component after counterclockwise_rotate_selection was called n times
\* with it as the selection
RECURSIVE rotated(_, _)
rotated(c, n) ==
    IF n = 0 THEN c
    ELSE rotated(counterclockwise_rotate_selection(<< c >>, << >>,
                     SelComponent(1)).components[1], n - 1)

selection_in_range(sel, comps, wires) ==
    CASE sel.tag = "Component"   -> sel.index \in 1 .. Len(comps)
      [] sel.tag = "WireSegment" -> sel.index \in 1 .. Len(wires)
      [] sel.tag = "Multi"       ->
            /\ sel.components \subseteq 1 .. Len(comps)
            /\ sel.wire_segments \subseteq 1 .. Len(wires)
      [] OTHER -> TRUE

\* C23: in every state reachable from Circuit::new() through the public
\* operations, every index held by the selection is in range of the
\* components or of the wire segments.
C23_SelectionInRange ==
    selection_in_range(selection, components, wire_segments)

\* a box selection has just selected a component and a wire segment together
C23_Witness ==
    /\ selection.tag = "Multi"
    /\ selection.components # { }
    /\ selection.wire_segments # { }
    /\ call.op = "primary_button_released"

(***************************************************************************)
(* SpecPress: primary_button_pressed on a drawn circuit of at most two     *)
(* components and three wire segments with any selection the editor can    *)
(* hold on it, no simulation active.  call records the arguments of the    *)
(* press: the pointer position in pixels and the drag mode.                *)
(***************************************************************************)
InitPress ==
    /\ components \in DeleteComponents
    /\ wire_segments \in DeleteWires
    /\ selection \in selections_on(components, wire_segments)
    /\ drag_state = DragStateNone
    /\ primary_button_down = FALSE
    /\ secondary_button_down = FALSE
    /\ sim_state = SimStateNone
    /\ panicked = FALSE
    /\ call = [op |-> "new", was |-> "None", steps |-> 0, ret |-> "unit"]

\* Circuit::primary_button_pressed while no simulation is active, its
\* arguments recorded in call
PrimaryButtonPressed_Recorded(pos, drag_mode) ==
    /\ ~panicked
    /\ sim_state.tag # "Active"
    /\ IF drag_state.tag # "None"
       THEN Panic("primary_button_pressed")
       ELSE \E logical_pos \in { to_logical(pos) } :
            \E hit \in { hit_test(components, wire_segments, logical_pos, 0) } :
            \E r \in { primary_button_pressed(selection, hit, logical_pos,
                                              drag_mode, primary_button_down) } :
                /\ drag_state' = r.drag_state
                /\ selection' = r.selection
                /\ primary_button_down' = r.primary_button_down
                /\ call.steps < MaxSteps
                /\ call' = [op |-> "primary_button_pressed",
                            was |-> drag_state.tag,
                            steps |-> call.steps + 1,
                            ret |-> redraw(pressed_redraw(selection, hit,
                                                          drag_mode)),
                            pos |-> pos, drag_mode |-> drag_mode]
                /\ UNCHANGED << components, wire_segments,
                                secondary_button_down, sim_state, panicked >>

\* the pointer positions of Spec and one on the body of the diagonal wire
PressPositions == ScreenPositions \cup { Vec2(5, 15) }

NextPress ==
    \E pos \in PressPositions, drag_mode \in DragModes :
        PrimaryButtonPressed_Recorded(pos, drag_mode)

SpecPress == InitPress /\ [][NextPress]_vars

\* the element a hit-test result names, as the selection of that element
selection_of_hit(hit) ==
    IF hit.tag \in { "Component", "ComponentAnchor" }
    THEN SelComponent(hit.index)
    ELSE SelWireSegment(hit.index)

\* sel holds the element a hit-test result names, alone or in a Multi
holds_hit(sel, hit) ==
    \/ sel = selection_of_hit(hit)
    \/ /\ sel.tag = "Multi"
       /\ IF hit.tag \in { "Component", "ComponentAnchor" }
          THEN hit.index \in sel.components
          ELSE hit.index \in sel.wire_segments

\* C24: with no simulation active, a primary_button_pressed that passes its
\* assertion enters Deadzone with drag_start the press point in logical
\* coordinates (pixels divided by zoom * BASE_ZOOM, offset zero) and a zero
\* drag_delta; in box-selection mode a press on an element the selection
\* does not hold makes that element the selection, a press on an element
\* the selection holds (alone or in a Multi) leaves the selection as it
\* was, and a press on empty space sets the selection to None.
C24_PressEntersDeadzone ==
    [][(call'.op = "primary_button_pressed" /\ ~panicked') =>
         LET hit == hit_test(components, wire_segments,
                             drag_state'.drag_start, 0)
         IN  /\ drag_state'.tag = "Deadzone"
             /\ drag_state'.drag_start.x * DEFAULT_ZOOM * BASE_ZOOM
                    = 2 * call'.pos.x
             /\ drag_state'.drag_start.y * DEFAULT_ZOOM * BASE_ZOOM
                    = 2 * call'.pos.y
             /\ drag_state'.drag_delta = Vec2(0, 0)
             /\ hit.tag = "None" => selection' = SelectionNone
             /\ (hit.tag # "None" /\ call'.drag_mode = "BoxSelection") =>
                    IF holds_hit(selection, hit)
                    THEN selection' = selection
                    ELSE selection' = selection_of_hit(hit)]_vars

\* a press in box-selection mode on the body of a wire segment that the
\* Multi selection holds together with a component has kept the selection
C24_Witness ==
    /\ call.op = "primary_button_pressed"
    /\ ~panicked
    /\ call.drag_mode = "BoxSelection"
    /\ drag_state.tag = "Deadzone"
    /\ selection.tag = "Multi"
    /\ selection.components # { }
    /\ LET hit == hit_test(components, wire_segments,
                            drag_state.drag_start, 0)
       IN  /\ hit.tag = "WireSegment"
           /\ hit.index \in selection.wire_segments

\* the gesture that a hit-test result and a drag mode select
\* (spec: dead zone resolution)
gesture_of(hit_tag, drag_mode) ==
    IF drag_mode = "DrawWire"
    THEN IF hit_tag = "Component" THEN "Dragging" ELSE "DraggingWirePointB"
    ELSE CASE hit_tag = "None" -> "DrawingBoxSelection"
           [] hit_tag \in { "Component", "ComponentAnchor", "WireSegment" } ->
                "Dragging"
           [] hit_tag = "WirePointA" -> "DraggingWirePointA"
           [] hit_tag = "WirePointB" -> "DraggingWirePointB"

\* the pointer movement accumulated by a gesture, in halves
accumulated(ds) ==
    IF ds.tag = "Dragging" THEN ds.fract_drag_delta ELSE ds.drag_delta

\* C25: a mouse_moved in Deadzone (the secondary button up, or the call is
\* ignored) adds the movement to drag_delta; while the length of the sum is
\* below 0.8 it stays in Deadzone with the press point, and changes no
\* component, wire segment or selection; once the length is 0.8 or more it
\* enters the gesture given by the hit test of the press point and the drag
\* mode of that call.
C25_DeadzoneResolution ==
    [][(call'.op = "mouse_moved" /\ call'.was = "Deadzone" /\ ~panicked') =>
         IF secondary_button_down
         THEN UNCHANGED << components, wire_segments, selection, drag_state >>
         ELSE /\ \E delta \in PointerDeltas :
                    accumulated(drag_state')
                        = vecf_add(drag_state.drag_delta, delta)
              /\ IF 25 * dot(accumulated(drag_state'),
                             accumulated(drag_state'))
                       < DEADZONE_RANGE * DEADZONE_RANGE
                 THEN /\ drag_state'.tag = "Deadzone"
                      /\ drag_state'.drag_start = drag_state.drag_start
                      /\ UNCHANGED << components, wire_segments, selection >>
                 ELSE drag_state'.tag =
                         gesture_of(hit_test(components, wire_segments,
                                             drag_state.drag_start, 0).tag,
                                    call'.drag_mode)]_vars

\* a second small movement has ended the dead zone of a press on a wire
\* endpoint in box-selection mode: the endpoint is being dragged
C25_Witness ==
    /\ call.op = "mouse_moved"
    /\ call.was = "Deadzone"
    /\ ~panicked
    /\ drag_state.tag = "DraggingWirePointA"
    /\ drag_state.drag_delta = Vec2(2, 0)

\* wires with n segments appended, those before kept but for the one at
\* index changed (0: none)
appended(before, after, n, changed) ==
    /\ Len(after) = Len(before) + n
    /\ \A i \in 1 .. Len(before) : i # changed => after[i] = before[i]

\* C26: when the dead zone ends in wire-draw mode on empty space, a
\* component anchor or a wire endpoint, exactly one wire segment is
\* appended, its endpoint_a is the rounded press point, and drag_state is
\* DraggingWirePointB with the index of the appended segment; on a wire
\* body two segments are appended: the wire hit keeps its endpoint_a and
\* ends at the rounded press point, the first appended segment runs from
\* that point to the old endpoint_b, the second is the drawn one, it starts
\* at that point too, and DraggingWirePointB holds its index.
C26_WireDrawStart ==
    [][(/\ call'.op = "mouse_moved"
        /\ call'.was = "Deadzone"
        /\ ~panicked'
        /\ drag_state'.tag # "Deadzone"
        /\ ~secondary_button_down
        /\ call'.drag_mode = "DrawWire") =>
         LET hit   == hit_test(components, wire_segments,
                               drag_state.drag_start, 0)
             p     == to_vec2i(vecf_round(drag_state.drag_start))
             n     == Len(wire_segments)
         IN  /\ hit.tag \in { "None", "ComponentAnchor", "WirePointA",
                              "WirePointB" } =>
                    /\ appended(wire_segments, wire_segments', 1, 0)
                    /\ wire_segments'[n + 1].endpoint_a = p
                    /\ drag_state'.tag = "DraggingWirePointB"
                    /\ drag_state'.wire_segment = n + 1
             /\ hit.tag = "WireSegment" =>
                    /\ appended(wire_segments, wire_segments', 2, hit.index)
                    /\ wire_segments'[hit.index].endpoint_a
                           = wire_segments[hit.index].endpoint_a
                    /\ wire_segments'[hit.index].endpoint_b = p
                    /\ wire_segments'[n + 1].endpoint_a = p
                    /\ wire_segments'[n + 1].endpoint_b
                           = wire_segments[hit.index].endpoint_b
                    /\ wire_segments'[n + 2].endpoint_a = p
                    /\ drag_state'.tag = "DraggingWirePointB"
                    /\ drag_state'.wire_segment = n + 2]_vars

\* a wire has been drawn from the body of another: the two halves and the
\* drawn segment meet at one point, DraggingWirePointB holds the drawn one
C26_Witness ==
    /\ call.op = "mouse_moved"
    /\ call.was = "Deadzone"
    /\ ~panicked
    /\ drag_state.tag = "DraggingWirePointB"
    /\ call.drag_mode = "DrawWire"
    /\ Len(wire_segments) = 3
    /\ drag_state.wire_segment = 3
    /\ wire_segments[1].endpoint_b = wire_segments[3].endpoint_a
    /\ wire_segments[2].endpoint_a = wire_segments[3].endpoint_a
    /\ wire_segments[2].endpoint_b # wire_segments[3].endpoint_a
    /\ wire_segments[1].endpoint_a # wire_segments[3].endpoint_a

\* each component of a fractional delta (in halves) is at most 0.5
within_half(fract) == Abs(fract.x) <= 1 /\ Abs(fract.y) <= 1

\* one mouse_moved in Dragging: for the movement delta it was given, the
\* selected components and wire segments are moved by the rounded sum of
\* the remainder and delta, the others stay, and the new remainder is what
\* the rounding left
dragged_by(delta) ==
    LET sum   == vecf_add(drag_state.fract_drag_delta, delta)
        whole == to_vec2i(vecf_round(sum))
    IN  /\ drag_state'.tag = "Dragging"
        /\ vecf_add(to_vec2f(whole), drag_state'.fract_drag_delta) = sum
        /\ Len(components') = Len(components)
        /\ Len(wire_segments') = Len(wire_segments)
        /\ \A i \in 1 .. Len(components) :
              components'[i].position =
                  IF contains_component(selection, i)
                  THEN vec_add(components[i].position, whole)
                  ELSE components[i].position
        /\ \A i \in 1 .. Len(wire_segments) :
              IF contains_wire_segment(selection, i)
              THEN /\ wire_segments'[i].endpoint_a
                          = vec_add(wire_segments[i].endpoint_a, whole)
                   /\ wire_segments'[i].endpoint_b
                          = vec_add(wire_segments[i].endpoint_b, whole)
              ELSE wire_segments'[i] = wire_segments[i]

\* the two steps of a drag: the mouse_moved that enters Dragging moves
\* nothing and keeps the movement of the dead zone as the remainder
\* (circuit.rs 804-807), and each mouse_moved in Dragging moves the
\* selection by the rounded remainder (945-951)
DraggingStepsConserve ==
    [][(call'.op = "mouse_moved" /\ ~panicked' /\ ~secondary_button_down) =>
         /\ (call'.was = "Deadzone" /\ drag_state'.tag = "Dragging") =>
               /\ UNCHANGED << components, wire_segments, selection >>
               /\ \E delta \in PointerDeltas :
                     drag_state'.fract_drag_delta
                         = vecf_add(drag_state.drag_delta, delta)
         /\ call'.was = "Dragging" =>
               \E delta \in PointerDeltas : dragged_by(delta)]_vars

\* C27: during a Dragging gesture, the event that enters it included, each
\* component of the remaining fractional delta has magnitude at most 0.5
\* after every event: the whole part of the pointer movement since the
\* press has been applied to the selection.
C27_DraggingRemainder ==
    drag_state.tag = "Dragging" => within_half(drag_state.fract_drag_delta)

(***************************************************************************)
(* SpecRelease: the release of a wire-endpoint drag.  Init is a circuit of *)
(* two or three wire segments, with or without an input whose anchor lies  *)
(* on the horizontal segment, right after mouse_moved has left the dead    *)
(* zone of a press on an endpoint of one segment in box-selection mode;    *)
(* the pointer is then moved and the button released.                      *)
(***************************************************************************)
ReleaseWires ==
    { new_wire(Vec2(0, 2), Vec2(2, 2)),
      new_wire(Vec2(1, 2), Vec2(1, 4)),
      new_wire(Vec2(-1, 0), Vec2(-1, 3)) }

ReleaseComponents == { << >>, << placed("Input", Vec2(1, 1)) >> }

InitRelease ==
    /\ components \in ReleaseComponents
    /\ wire_segments \in [1 .. 2 -> ReleaseWires] \cup [1 .. 3 -> ReleaseWires]
    /\ \A i, j \in 1 .. Len(wire_segments) :
          wire_segments[i] = wire_segments[j] => i = j
    /\ \E k \in 1 .. Len(wire_segments), tag \in { "WirePointA", "WirePointB" },
          drag_delta \in DragDeltas :
          \E drag_start \in
                { to_vec2f(IF tag = "WirePointA"
                           THEN wire_segments[k].endpoint_a
                           ELSE wire_segments[k].endpoint_b) } :
             /\ leaves_deadzone(drag_delta)
             /\ hit_test(components, wire_segments, drag_start, 0) =
                   [tag |-> tag, index |-> k]
             /\ selection = SelWireSegment(k)
             /\ drag_state = [tag |-> IF tag = "WirePointA"
                                      THEN "DraggingWirePointA"
                                      ELSE "DraggingWirePointB",
                              wire_segment |-> k,
                              drag_start   |-> drag_start,
                              drag_delta   |-> drag_delta]
    /\ primary_button_down = TRUE
    /\ secondary_button_down = FALSE
    /\ sim_state = SimStateNone
    /\ panicked = FALSE
    /\ call = [op |-> "mouse_moved", was |-> "Deadzone", steps |-> 0,
               ret |-> "true", drag_mode |-> "BoxSelection"]

NextRelease ==
    \/ \E delta \in PointerDeltas, drag_mode \in DragModes :
          MouseMoved(delta, drag_mode)
    \/ \E pos \in ScreenPositions : PrimaryButtonReleased(pos)

SpecRelease == InitRelease /\ [][NextRelease]_vars

\* p lies on a leg of seg and is neither of its endpoints
on_body(seg, p) ==
    /\ p # seg.endpoint_a
    /\ p # seg.endpoint_b
    /\ \E j \in 1 .. Len(points_of(seg)) - 1 :
          LET a == points_of(seg)[j]
              d == vec_sub(points_of(seg)[j + 1], a)
              q == vec_sub(p, a)
          IN  /\ cross(q, d) = 0
              /\ 0 <= dot(q, d)
              /\ dot(q, d) <= dot(d, d)

\* the segments at the indices in S are in one group of find_wire_groups
one_group(wires, S) ==
    \E g \in 1 .. Len(find_wire_groups(wires).groups) :
        \A i \in S : find_wire_groups(wires).group_map[i] = g

\* C28: when a wire-endpoint drag is released with the dragged endpoint on
\* the body of another wire segment, primary_button_released has split such
\* a segment at the endpoint: there is one wire segment more, the segment
\* and the appended half both have the dragged endpoint as an endpoint, and
\* find_wire_groups puts them in one group with the dragged wire.
C28_ReleaseSplitsBody ==
    [][(/\ call'.op = "primary_button_released"
        /\ ~panicked'
        /\ primary_button_down
        /\ drag_state.tag \in { "DraggingWirePointA", "DraggingWirePointB" }) =>
         LET k == drag_state.wire_segment
             p == dragged_endpoint(wire_segments, drag_state)
             n == Len(wire_segments)
             under == { i \in (1 .. n) \ { k } :
                          on_body(wire_segments[i], p) }
         IN  under # { } =>
                /\ Len(wire_segments') = n + 1
                /\ \E i \in under :
                      /\ p \in { wire_segments'[i].endpoint_a,
                                 wire_segments'[i].endpoint_b }
                      /\ p \in { wire_segments'[n + 1].endpoint_a,
                                 wire_segments'[n + 1].endpoint_b }
                      /\ one_group(wire_segments', { k, i, n + 1 })]_vars

\* C29: while the simulation is active, a primary press on the body or an
\* anchor of a 1-bit input returns true, having inverted the input's value
\* (so that a second such press restores it), driven the input's simulator
\* wire with the new value and run the simulator; a press anywhere else
\* returns false and changes no component; either press leaves drag_state
\* None and the selection as it was.
C29_LiveClick ==
    [][(call'.op = "primary_button_pressed" /\ call'.was = "Active") =>
         LET hit == hit_test(components, wire_segments,
                             to_logical(call'.pos), 0)
             on_input == /\ hit.tag \in { "Component", "ComponentAnchor" }
                         /\ components[hit.index].kind = "Input"
                         /\ components[hit.index].width = 1
         IN  /\ ~panicked'
             /\ drag_state' = DragStateNone
             /\ selection' = selection
             /\ IF on_input
                THEN /\ call'.ret = "true"
                     /\ components' =
                           [components EXCEPT ![hit.index].value =
                               VALUE_MASK - components[hit.index].value]
                     /\ VALUE_MASK - components'[hit.index].value
                           = components[hit.index].value
                     /\ call'.result # NoResult
                     /\ sim_state'.sim.drives[components[hit.index].sim]
                           = << from_int(components'[hit.index].value, 1) >>
                ELSE /\ call'.ret = "false"
                     /\ components' = components]_vars

\* C30: after a start_simulation that completes, the simulator has as many
\* wires as there are wire groups, every wire segment holds exactly one
\* simulator wire handle, and two segments hold the same handle exactly
\* when a chain of shared endpoints links them (they are in one group).
C30_OneWirePerGroup ==
    (call.op = "start_simulation" /\ ~panicked) =>
        /\ sim_state.tag \in { "Active", "Conflict" }
        /\ Len(sim_state.sim.wires)
              = Cardinality({ linked({ i }) : i \in 1 .. Len(wire_segments) })
        /\ \A i \in 1 .. Len(wire_segments) :
              /\ Len(wire_segments[i].sim_wires) = 1
              /\ wire_segments[i].sim_wires[1]
                    \in 1 .. Len(sim_state.sim.wires)
        /\ \A i, j \in 1 .. Len(wire_segments) :
              (wire_segments[i].sim_wires = wire_segments[j].sim_wires)
                  <=> (j \in linked({ i }))

\* a started simulation with two segments on one simulator wire and two
\* segments on different ones
C30_Witness ==
    /\ call.op = "start_simulation"
    /\ ~panicked
    /\ sim_state.tag = "Active"
    /\ \E i, j \in 1 .. Len(wire_segments) :
          /\ i # j
          /\ wire_segments[i].sim_wires = wire_segments[j].sim_wires
    /\ \E i, j \in 1 .. Len(wire_segments) :
          wire_segments[i].sim_wires # wire_segments[j].sim_wires

\* the wire of every clock input carries the drive clk
clocks_driven(comps, sim, clk) ==
    \A i \in 1 .. Len(comps) :
        comps[i].kind = "ClockInput" => sim.drives[comps[i].sim] = << clk >>

\* C31: a start_simulation that ends Active leaves clock_state false; a
\* step_simulation called in Active returns, having run the simulator
\* once, and when it ends Active clock_state is inverted and every clock
\* input's wire carries the new value; a live click that ends Active keeps
\* clock_state; a step_simulation called in None or Conflict panics.
C31_ClockSteps ==
    [][/\ (call'.op = "start_simulation" /\ sim_state'.tag = "Active"
             /\ ~panicked') => sim_state'.clock_state = FALSE
       /\ (call'.op = "step_simulation" /\ call'.was = "Active") =>
             /\ ~panicked'
             /\ call'.result # NoResult
             /\ sim_state'.tag = "Active" =>
                   /\ sim_state'.clock_state = ~sim_state.clock_state
                   /\ clocks_driven(components, sim_state'.sim,
                                    IF sim_state'.clock_state THEN 1 ELSE 0)
       /\ (call'.op = "step_simulation" /\ call'.was # "Active") =>
             panicked'
       /\ (call'.op = "primary_button_pressed" /\ call'.was = "Active"
             /\ sim_state'.tag = "Active") =>
             sim_state'.clock_state = sim_state.clock_state]_vars

(***************************************************************************)
(* SpecStart: the simulation operations on circuits without width          *)
(* conflict: the wired gate with its output port, the same with a further  *)
(* input that no wire touches, and a clock input wired to a segment.       *)
(***************************************************************************)
LooseInputCircuit ==
    [components    |-> Append(AndOutCircuit.components,
                              placed("Input", Vec2(5, 0))),
     wire_segments |-> AndOutCircuit.wire_segments]

ClockedCircuit ==
    [components    |-> << placed("ClockInput", Vec2(0, 0)) >>,
     wire_segments |-> << new_wire(Vec2(0, 1), Vec2(0, 3)) >>]

StartCircuits == { AndOutCircuit, LooseInputCircuit, ClockedCircuit }

InitStart ==
    /\ \E c \in StartCircuits :
          /\ components = c.components
          /\ wire_segments = c.wire_segments
    /\ selection \in { SelectionNone, SelWireSegment(1) }
    /\ drag_state = DragStateNone
    /\ primary_button_down = FALSE
    /\ secondary_button_down = FALSE
    /\ sim_state = SimStateNone
    /\ panicked = FALSE
    /\ call = [op |-> "new", was |-> "None", prev |-> "new", steps |-> 0,
               result |-> NoResult]

NextStart == NextSim

SpecStart == InitStart /\ [][NextStart]_vars

\* C32: for a circuit of inputs, clock inputs, outputs and gates without
\* width conflict, also one with an anchor that no wire endpoint touches,
\* start_simulation returns with sim_state Active or Conflict, and every
\* input and clock input has its initial value as the drive of the wire at
\* its anchor.
C32_StartCompletes ==
    [][(/\ call'.op = "start_simulation"
        /\ find_wire_group_widths(find_wire_groups(wire_segments).groups,
                                  wire_segments, components).ok) =>
         /\ ~panicked'
         /\ sim_state'.tag \in { "Active", "Conflict" }
         /\ \A i \in 1 .. Len(components') :
               /\ components'[i].kind = "Input" =>
                     sim_state'.sim.drives[components'[i].sim]
                        = << from_int(components'[i].value,
                                      components'[i].width) >>
               /\ components'[i].kind = "ClockInput" =>
                     sim_state'.sim.drives[components'[i].sim] = << 0 >>]_vars

(***************************************************************************)
(* SpecHitWires: hit testing on wires.  Init draws one to three distinct   *)
(* wire segments in any order, one of them with an endpoint on the body of *)
(* another, with or without an input; the action hit-tests one pointer     *)
(* position.                                                               *)
(***************************************************************************)
InitHitWires ==
    /\ components \in ReleaseComponents
    /\ wire_segments \in [1 .. 1 -> ReleaseWires] \cup [1 .. 2 -> ReleaseWires]
                            \cup [1 .. 3 -> ReleaseWires]
    /\ \A i, j \in 1 .. Len(wire_segments) :
          wire_segments[i] = wire_segments[j] => i = j
    /\ selection = SelectionNone
    /\ drag_state = DragStateNone
    /\ primary_button_down = FALSE
    /\ secondary_button_down = FALSE
    /\ sim_state = SimStateNone
    /\ panicked = FALSE
    /\ call = [op |-> "none"]

NextHitWires == \E pos \in PointerPositions : HitTest(pos)

SpecHitWires == InitHitWires /\ [][NextHitWires]_vars

\* pos matches a component: an anchor within the snap radius or the
\* bounding box
on_component(pos) ==
    \E i \in 1 .. Len(components) :
        \/ near_anchor(components[i], pos)
        \/ rect_contains(bounding_box(components[i]), pos)

\* pos is within the snap radius of an endpoint of some wire segment
near_endpoint(pos) ==
    \E i \in 1 .. Len(wire_segments) :
        \/ within_snap(vecf_sub(pos, to_vec2f(wire_segments[i].endpoint_a)))
        \/ within_snap(vecf_sub(pos, to_vec2f(wire_segments[i].endpoint_b)))

\* C33: hit_test returns a wire result only for a point that matches no
\* component, and for such a point within the snap radius of an endpoint of
\* some wire segment it returns WirePointA or WirePointB, not WireSegment,
\* whatever the order of the wire segments.
C33_EndpointBeatsBody ==
    call.op = "hit_test" =>
        /\ call.result.tag \in { "WirePointA", "WirePointB", "WireSegment" } =>
              ~on_component(call.pos)
        /\ (~on_component(call.pos) /\ near_endpoint(call.pos)) =>
              call.result.tag \in { "WirePointA", "WirePointB" }

\* mirror across the local x axis, rotate by the rotation, translate by the
\* position times scale (1 for grid units, 2 for halves): the map of
\* spec "transform order", written out per rotation
placement_map(c, p, scale) ==
    LET m == IF c.mirrored THEN Vec2(-p.x, p.y) ELSE p
        r == CASE c.rotation = 0 -> m
               [] c.rotation = 1 -> Vec2(-m.y, m.x)
               [] c.rotation = 2 -> Vec2(-m.x, -m.y)
               [] c.rotation = 3 -> Vec2(m.y, -m.x)
    IN  Vec2(r.x + scale * c.position.x, r.y + scale * c.position.y)

\* the images of the four corners of the kind's base box (in halves)
box_corners(c) ==
    { placement_map(c, Vec2(x, y), 2) :
        x \in { kind_bounding_box(c.kind).left,
                kind_bounding_box(c.kind).right },
        y \in { kind_bounding_box(c.kind).bottom,
                kind_bounding_box(c.kind).top } }

\* the offsets of the anchors of c from its position
anchor_offsets(c) ==
    [k \in 1 .. Len(anchors(c)) |-> vec_sub(anchors(c)[k].position, c.position)]

\* C34: bounding_box() is the well-formed axis-aligned image of the kind's
\* base box under the mirror-then-rotate-then-translate map that anchors()
\* applies to the anchor offsets; and on a single selected component
\* counterclockwise_rotate_selection turns every anchor offset (x, y) into
\* (-y, x), clockwise_rotate_selection into (y, -x) and mirror_selection
\* into (-x, y).
C34_BoxAndAnchorsAgree ==
    /\ [](\A i \in 1 .. Len(components) :
             LET c  == components[i]
                 bb == bounding_box(c)
             IN  /\ bb.left <= bb.right
                 /\ bb.bottom <= bb.top
                 /\ bb.left = MinOf({ p.x : p \in box_corners(c) })
                 /\ bb.right = MaxOf({ p.x : p \in box_corners(c) })
                 /\ bb.bottom = MinOf({ p.y : p \in box_corners(c) })
                 /\ bb.top = MaxOf({ p.y : p \in box_corners(c) })
                 /\ \A k \in 1 .. Len(anchors(c)) :
                       anchors(c)[k].position =
                          placement_map(c, kind_anchors(c.kind)[k].position, 1))
    /\ [][(call'.op \in { "ccw", "cw", "mirror" } /\ ~panicked'
             /\ selection.tag = "Component") =>
            LET old == anchor_offsets(components[selection.index])
                new == anchor_offsets(components'[selection.index])
            IN  /\ components'[selection.index].position
                      = components[selection.index].position
                /\ Len(new) = Len(old)
                /\ \A k \in 1 .. Len(old) :
                      new[k] = CASE call'.op = "ccw" ->
                                       Vec2(-old[k].y, old[k].x)
                                 [] call'.op = "cw" ->
                                       Vec2(old[k].y, -old[k].x)
                                 [] call'.op = "mirror" ->
                                       Vec2(-old[k].x, old[k].y)]_vars

\* mirror_selection has just acted on a gate turned by 90 degrees, away
\* from the origin
C34_Witness ==
    /\ call.op = "mirror"
    /\ components[1].kind = "NandGate"
    /\ components[1].rotation = 3
    /\ components[1].mirrored
    /\ components[1].position = Vec2(2, 1)

\* C35: a mouse_moved that ends the dead zone never fails the 'invalid drag
\* state' assertions of the arms that enter Dragging: the component or wire
\* segment under the press point is in the selection, whatever public calls
\* and drag modes came between the press and the motion.
C35_DraggingEntryAsserts ==
    [][(call'.op = "mouse_moved"
          /\ drag_state.tag = "Deadzone") => ~panicked']_vars

\* C36: mouse_moved never handles a motion in Dragging with
\* Selection::None: the 'invalid drag state' assertion of the Dragging arm
\* holds after any sequence of public calls, delete_selection and secondary
\* clicks during the drag included.
C36_DraggingHasSelection ==
    [][(call'.op = "mouse_moved" /\ drag_state.tag = "Dragging")
          => ~panicked']_vars

\* C37: in SimState::Conflict every index of conflict_segments is an index
\* of wire_segments and denotes a segment whose cached simulator handle was
\* reported as conflicting, after the run that reported the conflict and
\* after every edit made while the conflict is shown.
C37_ConflictSegmentsValid ==
    [][sim_state'.tag = "Conflict" =>
          \A i \in sim_state'.conflict_segments :
             /\ i \in 1 .. Len(wire_segments')
             /\ IF call'.result.tag = "Err"
                THEN \E k \in 1 .. Len(wire_segments'[i].sim_wires) :
                        wire_segments'[i].sim_wires[k]
                           \in call'.result.conflicts
                ELSE sim_state.tag = "Conflict" =>
                        \E j \in sim_state.conflict_segments :
                           /\ j \in 1 .. Len(wire_segments)
                           /\ wire_segments'[i] = wire_segments[j]]_vars

\* the last two operations were first, then second
LastTwo(first, second) ==
    /\ call.op = "xform"
    /\ Len(call.hist) >= 2
    /\ call.hist[Len(call.hist) - 1].op = first
    /\ call.hist[Len(call.hist)].op = second

\* C38: counterclockwise_rotate_selection followed by
\* clockwise_rotate_selection, and the two in the other order, leave every
\* selected component (position, rotation) and every selected wire segment
\* (endpoints, midpoints) as they were, for every selection variant.
C38_RotateThereAndBack ==
    (LastTwo("ccw", "cw") \/ LastTwo("cw", "ccw")) => SelectedRestored(2)

(***************************************************************************)
(* SpecLive: the pointer while a simulation runs.  Init is a drawn circuit *)
(* before start_simulation; the actions are start_simulation and the       *)
(* pointer operations.                                                     *)
(***************************************************************************)
LiveCircuits == { AndOutCircuit, JoinedInputs(1, 1, 1) }

\* pointer movements, logical, in halves: past the dead zone at once
LiveDeltas == { Vec2(4, -2) }

InitLive ==
    /\ \E c \in LiveCircuits :
          /\ components = c.components
          /\ wire_segments = c.wire_segments
    /\ selection = SelectionNone
    /\ drag_state = DragStateNone
    /\ primary_button_down = FALSE
    /\ secondary_button_down = FALSE
    /\ sim_state = SimStateNone
    /\ panicked = FALSE
    /\ call = [op |-> "new", was |-> "None", prev |-> "new", steps |-> 0,
               result |-> NoResult]

NextLive ==
    \/ StartSimulation
    \/ \E pos \in SimClickPositions : PrimaryButtonPressed_Active(pos)
    \/ \E pos \in SimClickPositions, drag_mode \in DragModes :
          PrimaryButtonPressed(pos, drag_mode)
    \/ \E pos \in SimClickPositions : PrimaryButtonReleased(pos)
    \/ SecondaryButtonPressed
    \/ \E pos \in SimClickPositions : SecondaryButtonReleased(pos)
    \/ \E delta \in LiveDeltas, drag_mode \in DragModes :
          MouseMoved(delta, drag_mode)

SpecLive == InitLive /\ [][NextLive]_vars

PointerOps ==
    { "primary_button_pressed", "primary_button_released",
      "secondary_button_pressed", "secondary_button_released",
      "mouse_moved" }

\* the kind and the placement of a component
geometry(c) ==
    [kind |-> c.kind, position |-> c.position, rotation |-> c.rotation,
     mirrored |-> c.mirrored]

\* the endpoints and midpoints of a wire segment
route(seg) ==
    [endpoint_a |-> seg.endpoint_a, midpoints |-> seg.midpoints,
     endpoint_b |-> seg.endpoint_b]

\* C39: a press, release or movement of the pointer that starts with
\* sim_state Active and drag_state None and leaves sim_state Active changes
\* neither the number of components, nor any component's position, rotation
\* or mirror flag, nor any wire segment's endpoints or midpoints, and leaves
\* drag_state None.
C39_LivePointerFrame ==
    [][(/\ sim_state.tag = "Active"
        /\ drag_state.tag = "None"
        /\ sim_state'.tag = "Active"
        /\ call'.op \in PointerOps)
       => /\ Len(components') = Len(components)
          /\ \A i \in 1 .. Len(components) :
                geometry(components'[i]) = geometry(components[i])
          /\ Len(wire_segments') = Len(wire_segments)
          /\ \A i \in 1 .. Len(wire_segments) :
                route(wire_segments'[i]) = route(wire_segments[i])
          /\ drag_state'.tag = "None"]_vars

\* the pointer moved with the primary button held over a running simulation
\* in which an input has been toggled by a click
C39_Witness ==
    /\ call.op = "mouse_moved"
    /\ sim_state.tag = "Active"
    /\ drag_state.tag = "None"
    /\ primary_button_down
    /\ ~secondary_button_down
    /\ \E i \in 1 .. Len(components) : components[i].value # 0
    /\ Len(components) = 4
    /\ selection.tag = "Component"

====
